---- MODULE Spec2Model ----
(***************************************************************************)
(* Model of the NewFEM acquisition pipeline:                               *)
(*   - DataStore        (backends/app/core/data_store.py)                  *)
(*   - DataProcessor    (backends/app/core/processor.py)                   *)
(*   - SocketServer     (backends/app/core/socket_server.py)               *)
(*   - DataBroadcaster  (backends/app/core/data_broadcaster.py)            *)
(* Every section of code that runs under DataStore._lock is one atomic     *)
(* action; the loop thread, the control callers and the asyncio tasks      *)
(* interleave between those sections and at every await.                   *)
(***************************************************************************)
EXTENDS Integers, Sequences, FiniteSets, TLC

(***************************************************************************)
(* Bounds of the model                                                     *)
(***************************************************************************)
\* settings.buffer_size (100 in config.py), scaled down
BufferSize == 3
\* settings.fps (60 in config.py), scaled down: the baseline window
Fps == 2
\* ticks the acquisition loop may start in one behaviour
MaxTicks == 4
\* loop threads that start() may create in one behaviour
MaxThreads == 2

\* the largest settings.max_clients of the model (10 in config.py)
MaxClients == 2
\* SocketClient objects (accepted connections) alive at one time
MaxConns == 2
\* the clock advances in steps of TimeStep seconds
TimeStep == 15

\* capacity of the ROI ring (500 in data_store.py), scaled down
RoiBufferSize == 2
\* add_frame calls, and add_roi_frame calls, between two resets of a counter
MaxAdds == 4

\* length of the free sample sequences fed to the detector
FreeLen == 4
\* length of the flat sample sequence fed to the detector
FlatTicks == 52
\* window_size of the short-window configuration
ShortWindow == 20
\* update_config calls in one behaviour
MaxUpdates == 2
\* POST /peak-detection/config requests served
MaxRequests == 3

(***************************************************************************)
(* Values                                                                  *)
(***************************************************************************)
\* SocketClient.is_alive(timeout=30.0)
Timeout == 30
\* Python's None for Optional[int] peak signals and missing captures
None == -1
\* PeakDetectionConfig defaults: window_size, min_slope_frames,
\* baseline_window, min_dynamic_threshold, max_dynamic_threshold
WindowSize == 100
MinSlopeFrames == 3
BaselineWindow == 50
MinDynamicThreshold == 80
MaxDynamicThreshold == 150
\* PeakDetectionConfig.slope_threshold = 0.5, in sixtieths
SlopeThreshold == 30
\* one, in the thousandths that weights and score components are kept in
Scale == 1000
\* the margin of the simple detection path (threshold = 8.0)
SimpleThreshold == 8
\* base_value + 10*sin(2*pi*0.5*t), sampled at quarter periods
SimWave == <<120, 130, 120, 110>>
\* what RoiCaptureService.capture_roi may hand back: a missing capture,
\* a black region (gray_value 0) or a positive gray value
CaptureResults == {None, 0, 150}
\* the capture body ends with an exception
Raises == -2
\* how the body of capture_roi may end
CaptureOutcomes == CaptureResults \cup {Raises}
\* what EnhancedPeakDetector.process_frame may return as peak_signal
DetectorResults == {None, 1}
\* the callers of capture_roi: the acquisition thread (processor.py line
\* 83) and a request handler (routes.py lines 185 and 630)
Capturers == {1, 2}
\* control threads that may call start()/stop()
AllCallers == {1, 2}
AllThreads == 1..MaxThreads
\* accepted websocket connections, each served by one handle_client coroutine
Conns == 1..MaxConns
\* topics a subscriber may name in a subscribe message
Topics == {"realtime_data"}
\* the broadcasts of DataBroadcaster ("db_") and of SocketServer ("ss_")
BroadcastKinds == {"db_realtime_data", "ss_system_status"}
\* the client_id of no client, and no entry of the clients dict
NoId == <<-1, -1>>
NoEntry == [id |-> NoId, conn |-> 0]
\* the "type" a client may put in a message
MessageTypes == {"pong", "auth", "subscribe", "ping", "get_status"}
\* self.message_handlers: the types a handler is registered for
message_handlers == {"subscribe"}
\* no message served yet
NoMsg == [conn |-> 0, type |-> "none", password_ok |-> FALSE,
          reply |-> "none", dispatched |-> FALSE]
\* the commands of POST /control that act on the acquisition loop
Commands == {"start_detection", "stop_detection", "pause_detection", "resume_detection"}
\* no request served yet
NoReq == [no |-> 0, route |-> "none", command |-> "none", password_ok |-> FALSE,
          status |-> 0, error |-> "none"]

VARIABLES
    \* ---- DataStore ----
    frames,                 \* _frames: deque(maxlen=buffer_size) of Frame
    frame_count,            \* _frame_count
    current_value,          \* _current_value
    baseline,               \* _baseline, kept as the fraction num/den
    peak_signal,            \* _peak_signal
    last_peak_signal,       \* _last_peak_signal
    status,                 \* _status
    roi_configured,         \* _roi_configured
    enhanced_peak_frame_count, \* _enhanced_peak_frame_count
    added,                  \* history: every Frame add_frame returned since the last reset
    roi_config,             \* _roi_config
    roi_frames,             \* _roi_frames: deque(maxlen=roi_buffer_size) of RoiFrame
    roi_frame_count,        \* _roi_frame_count
    roi_error,              \* history: the latest set_roi_config call raised ValueError
    roi_set,                \* history: the config the latest set_roi_config stored, NoRoi after another write of _roi_config
    max_index,              \* history: the highest index add_frame has returned
    \* ---- DataProcessor ----
    thread,                 \* _thread: id of the Thread object, 0 for None
    stop_event,             \* _stop_event
    proc_frame_count,       \* DataProcessor._frame_count
    pc,                     \* per loop thread: position inside _run
    t_phase,                \* per loop thread: local t (in quarter periods)
    t_roi,                  \* per loop thread: local roi_configured
    t_value,                \* per loop thread: local signal_value
    t_peak,                 \* per loop thread: local peak_signal
    callers,                \* the control threads of this behaviour
    ctl_pc,                 \* per control thread: position inside start()/stop()
    stop_returned,          \* history: a stop() has returned and no start() was called since
    start_ignored,          \* history: a start() returned at line 47 (loop already running)
    \* ---- SocketServer ----
    max_clients,            \* self.max_clients, read from settings at construction
    ms,                     \* int(time.time() * 1000) of the latest client_id, None once the clock moved on
    table,                  \* clients: the entries of the dict in insertion order
    h_pc,                   \* per connection: none / open (its handle_client serves messages)
    rejecting,              \* whether a turned-away handle_client coroutine waits at line 131
    cid,                    \* per connection: client_id of its SocketClient
    authenticated,          \* per connection: SocketClient.is_authenticated
    subscriptions,          \* per connection: SocketClient.subscriptions
    pong_age,               \* per connection: time.time() - SocketClient.last_pong, up to Timeout
    bc_pc,                  \* broadcast_message: idle / await
    bc_kind,                \* broadcast_message: which broadcast is running
    bc_it,                  \* broadcast_message: the iterator over clients.items()
    bc_disc,                \* broadcast_message: disconnected_clients
    bc_to,                  \* broadcast_message: client_id and client of the awaited send
    bc_owed,                \* history: the clients matching this broadcast's filter when it began, in the dict ever since, that its loop has not reached
    bc_failed,              \* history: a send of this broadcast has failed
    hb_pc,                  \* heartbeat_loop: sleep / await
    hb_it,                  \* heartbeat_loop: the iterator over clients.items()
    hb_dead,                \* heartbeat_loop: dead_clients
    last_msg,               \* history: the message handle_message served last and its answer
    \* ---- ConfigManager, settings and the configuration route ----
    cm_config,              \* ConfigManager._config["peak_detection"]
    settings_peak,          \* settings.peak_threshold, peak_margin_frames, peak_difference_threshold, peak_min_region_length
    cfg_status,             \* history: the HTTP status of the latest POST /peak-detection/config, 0 before the first
    cfg_requests,           \* history: number of POST /peak-detection/config requests served
    \* ---- RoiCaptureService and its callers ----
    store_lock,             \* DataStore._lock: the caller holding it, 0 when it is free
    cap_pc,                 \* per caller: idle / locked / test / hit / grab / store_data / store_cfg / history
    cap_cfg,                \* per caller: the roi_config it read and passes to capture_roi
    cap_data,               \* per caller: local roi_data, as the config it was captured under
    cap_ret,                \* history, per caller: what its latest capture_roi returned
    cached_roi_data,        \* _cached_roi_data, as the config it was captured under
    last_roi_config,        \* _last_roi_config
    cache_fresh,            \* whether time.time() - _last_capture_time < _cache_interval
    \* ---- the control surface (api/routes.py) ----
    last_req,               \* history: the request served last: its number, route, command, whether its password was the configured one, and its answer
    last_call,              \* history: "start" once a start() has returned, "stop" from the latest call of stop() on
    signalled,              \* history: the loop threads that were alive when a stop() set the stop signal
    \* ---- EnhancedPeakDetector ----
    det_config,             \* _config
    det_buffer,             \* _frame_buffer
    det_regions,            \* _peak_regions
    det_feed,               \* the samples process_frame is still to be called with
    det_results,            \* history: peak_signal of every process_frame call that returned
    det_updates,            \* history: number of update_config calls
    pf_pc,                  \* process_frame: idle / scan / classify / region / return / raised
    pf_window,              \* process_frame: local window_data
    pf_best,                \* process_frame: local best peak (rise_pos, fall_pos, max_value, actual_peak_frame)
    pf_color,               \* process_frame: locals color and confidence (confidence as the fraction num/den)
    pf_signal,              \* process_frame: local peak_signal
    pf_cfgs                 \* history: the config objects this process_frame call has read

storeVars == <<frames, frame_count, current_value, baseline, peak_signal,
               last_peak_signal, status, roi_configured,
               enhanced_peak_frame_count, added>>
procVars == <<thread, stop_event, proc_frame_count, pc, t_phase, t_roi,
              t_value, t_peak, callers, ctl_pc, stop_returned, start_ignored>>
hubVars == <<max_clients, ms, table, h_pc, rejecting, cid, authenticated, subscriptions,
             pong_age, bc_pc, bc_kind, bc_it, bc_disc, bc_to,
             bc_owed, bc_failed, hb_pc, hb_it, hb_dead, last_msg>>
detVars == <<det_config, det_buffer, det_regions, det_feed, det_results, det_updates,
             pf_pc, pf_window, pf_best, pf_color, pf_signal, pf_cfgs>>
roiVars == <<roi_config, roi_frames, roi_frame_count, roi_error, roi_set, max_index>>
cfgVars == <<cm_config, settings_peak, cfg_status, cfg_requests>>
capVars == <<store_lock, cap_pc, cap_cfg, cap_data, cap_ret, cached_roi_data,
             last_roi_config, cache_fresh>>
ctlVars == <<last_req, last_call, signalled>>
vars == <<storeVars, procVars, hubVars, detVars, roiVars, cfgVars, capVars, ctlVars>>

(***************************************************************************)
(* DataStore                                                               *)
(***************************************************************************)
Min(a, b) == IF a <= b THEN a ELSE b
Max(a, b) == IF a >= b THEN a ELSE b

\* variant: a full ring refuses the new entry instead of dropping the oldest
DequeAppend_KeepOldest(q, x, maxlen) ==
    IF Len(q) >= maxlen THEN q ELSE Append(q, x)

\* deque(maxlen=n).append(x): drops the oldest entry when full
DequeAppend(q, x, maxlen) ==
    IF Len(q) >= maxlen THEN Append(Tail(q), x) ELSE Append(q, x)

\* Python's s[-c:] for a list s
SliceLast(s, c) ==
    IF c = 0 THEN s
    ELSE IF c > 0 THEN SubSeq(s, Len(s) - Min(c, Len(s)) + 1, Len(s))
    ELSE SubSeq(s, (0 - c) + 1, Len(s))

RECURSIVE SumValues(_)
SumValues(s) == IF s = <<>> THEN 0 ELSE s[1].value + SumValues(Tail(s))

\* variant: the mean of the whole buffer
BaselineOf_WholeBuffer(fs) ==
    IF fs = <<>> THEN [num |-> 0, den |-> 1]
    ELSE [num |-> SumValues(fs), den |-> Len(fs)]

\* _update_baseline_locked: mean of the last min(len, fps) values
BaselineOf(fs) ==
    IF fs = <<>> THEN [num |-> 0, den |-> 1]
    ELSE LET window_size == Min(Len(fs), Fps)
         IN [num |-> SumValues(SliceLast(fs, window_size)), den |-> window_size]

\* variant: the frame takes its index before the counter is incremented
add_frame_StaleIndex(value, timestamp, peak) ==
    LET frame == [index |-> frame_count, timestamp |-> timestamp, value |-> value]
        fs == DequeAppend(frames, frame, BufferSize)
    IN /\ frame_count' = frame_count + 1
       /\ frames' = fs
       /\ current_value' = value
       /\ baseline' = BaselineOf(fs)
       /\ peak_signal' = peak
       /\ last_peak_signal' = IF peak # None THEN peak ELSE last_peak_signal
       /\ added' = Append(added, frame)

add_frame(value, timestamp, peak) ==
    LET frame == [index |-> frame_count + 1, timestamp |-> timestamp, value |-> value]
        fs == DequeAppend(frames, frame, BufferSize)
    IN /\ frame_count' = frame_count + 1
       /\ frames' = fs
       /\ current_value' = value
       /\ baseline' = BaselineOf(fs)
       /\ peak_signal' = peak
       /\ last_peak_signal' = IF peak # None THEN peak ELSE last_peak_signal
       /\ added' = Append(added, frame)

get_status_snapshot ==
    <<status, frame_count, current_value, peak_signal, Len(frames), baseline>>

get_series(count) ==
    IF count >= Len(frames) THEN frames ELSE SliceLast(frames, count)

\* RoiConfig(x1=0, y1=0, x2=200, y2=150), the config of a new or reset store
DefaultRoi == [x1 |-> 0, y1 |-> 0, x2 |-> 200, y2 |-> 150]
\* no RoiConfig
NoRoi == [x1 |-> None, y1 |-> None, x2 |-> None, y2 |-> None]
\* the RoiConfig objects of the model (x1, y1, x2, y2 are ints >= 0): each
\* extent is proper, empty or reversed
Extents == {<<0, 100>>, <<0, 200>>, <<100, 100>>, <<200, 100>>}
RoiConfigs == {[x1 |-> x[1], y1 |-> y[1], x2 |-> x[2], y2 |-> y[2]] :
                    x \in Extents, y \in Extents}
\* one user-drawn region
UserRoi == [x1 |-> 0, y1 |-> 0, x2 |-> 100, y2 |-> 100]

\* variant: only the horizontal extent is tested
validate_coordinates_XOnly(cfg) == cfg.x1 < cfg.x2

\* RoiConfig.validate_coordinates: width and height are abs() of the extents
validate_coordinates(cfg) ==
    /\ cfg.x1 < cfg.x2
    /\ cfg.y1 < cfg.y2
    /\ Max(cfg.x2 - cfg.x1, cfg.x1 - cfg.x2) > 0
    /\ Max(cfg.y2 - cfg.y1, cfg.y1 - cfg.y2) > 0

\* variant: every caller gets a default config object
get_roi_config_Default == DefaultRoi

get_roi_config == roi_config

get_roi_series(count) ==
    IF count >= Len(roi_frames) THEN roi_frames ELSE SliceLast(roi_frames, count)

set_status(s) == status' = s

add_enhanced_peak(peak, fc) ==
    /\ peak_signal' = peak
    /\ last_peak_signal' = IF peak = 1 THEN peak
                           ELSE IF peak = None /\ last_peak_signal = 1 THEN None
                           ELSE last_peak_signal
    /\ enhanced_peak_frame_count' = fc

\* DataStore.reset()
Reset ==
    /\ frames' = <<>>
    /\ frame_count' = 0
    /\ current_value' = 0
    /\ baseline' = [num |-> 0, den |-> 1]
    /\ peak_signal' = None
    /\ last_peak_signal' = None
    /\ roi_config' = DefaultRoi
    /\ roi_configured' = FALSE
    /\ added' = <<>>
    /\ roi_set' = NoRoi
    /\ UNCHANGED <<status, enhanced_peak_frame_count, procVars,
                   roi_frames, roi_frame_count, roi_error, max_index>>

\* DataStore.set_roi_config(cfg): stores a config with valid coordinates,
\* raises ValueError otherwise
SetRoiConfig(cfg) ==
    /\ IF validate_coordinates(cfg)
       THEN /\ roi_config' = cfg
            /\ roi_configured' = TRUE
            /\ roi_error' = FALSE
            /\ roi_set' = cfg
       ELSE /\ roi_error' = TRUE
            /\ UNCHANGED <<roi_config, roi_configured, roi_set>>
    /\ UNCHANGED <<frames, frame_count, current_value, baseline, peak_signal,
                   last_peak_signal, status, enhanced_peak_frame_count, added,
                   procVars, roi_frames, roi_frame_count, max_index>>

\* add_frame called on the store, by whichever thread
StoreAddFrame(value, peak) ==
    /\ frame_count < MaxAdds
    /\ add_frame(value, frame_count, peak)
    /\ max_index' = Max(max_index, frame_count + 1)
    /\ UNCHANGED <<status, roi_configured, enhanced_peak_frame_count, procVars,
                   roi_config, roi_frames, roi_frame_count, roi_error, roi_set>>

\* DataStore.add_roi_frame(gray_value, roi_config, frame_count): the RoiFrame
\* takes the next ROI index; its timestamp, config snapshot and capture
\* duration are read by no operation of the store
AddRoiFrame(gray_value) ==
    /\ roi_frame_count < MaxAdds
    /\ roi_frame_count' = roi_frame_count + 1
    /\ roi_frames' = DequeAppend(roi_frames,
                                 [index |-> roi_frame_count + 1, gray_value |-> gray_value,
                                  frame_count |-> frame_count],
                                 RoiBufferSize)
    /\ UNCHANGED <<storeVars, procVars, roi_config, roi_error, roi_set, max_index>>

\* DataStore.reset_roi_history()
ResetRoiHistory ==
    /\ roi_frames' = <<>>
    /\ roi_frame_count' = 0
    /\ UNCHANGED <<storeVars, procVars, roi_config, roi_error, roi_set, max_index>>

StoreInit ==
    /\ frames = <<>>
    /\ frame_count = 0
    /\ current_value = 0
    /\ baseline = [num |-> 0, den |-> 1]
    /\ peak_signal = None
    /\ last_peak_signal = None
    /\ status = "stopped"
    /\ roi_configured = FALSE
    /\ enhanced_peak_frame_count = 0
    /\ added = <<>>
    /\ roi_config = DefaultRoi
    /\ roi_frames = <<>>
    /\ roi_frame_count = 0
    /\ roi_error = FALSE
    /\ roi_set = NoRoi
    /\ max_index = 0

(***************************************************************************)
(* DataProcessor                                                           *)
(***************************************************************************)
\* Thread.is_alive()
is_alive(th) == th # 0 /\ pc[th] \notin {"unborn", "exited", "crashed"}

ProcInit ==
    /\ thread = 0
    /\ stop_event = FALSE
    /\ proc_frame_count = 0
    /\ pc = [th \in AllThreads |-> "unborn"]
    /\ t_phase = [th \in AllThreads |-> 0]
    /\ t_roi = [th \in AllThreads |-> FALSE]
    /\ t_value = [th \in AllThreads |-> 0]
    /\ t_peak = [th \in AllThreads |-> None]
    /\ ctl_pc = [c \in AllCallers |-> "idle"]
    /\ stop_returned = FALSE
    /\ start_ignored = FALSE

\* ---- start() ----
\* variant: start() without the test of line 45
already_running_Unchecked == FALSE

\* line 45: self._thread and self._thread.is_alive()
already_running == is_alive(thread)

\* line 45: the is_alive test; a running loop makes start() return at once
StartCheck(c) ==
    /\ c \in callers /\ ctl_pc[c] = "idle"
    /\ stop_returned' = FALSE
    /\ IF already_running
       THEN /\ start_ignored' = TRUE
            /\ UNCHANGED ctl_pc
       ELSE /\ \E th \in AllThreads : pc[th] = "unborn"
            /\ ctl_pc' = [ctl_pc EXCEPT ![c] = "start_clear"]
            /\ UNCHANGED start_ignored
    /\ UNCHANGED <<storeVars, thread, stop_event, proc_frame_count, pc,
                   t_phase, t_roi, t_value, t_peak, callers>>

\* line 48: _stop_event.clear()
StartClear(c) ==
    /\ c \in callers /\ ctl_pc[c] = "start_clear"
    /\ stop_event' = FALSE
    /\ ctl_pc' = [ctl_pc EXCEPT ![c] = "start_status"]
    /\ UNCHANGED <<storeVars, thread, proc_frame_count, pc, t_phase, t_roi,
                   t_value, t_peak, callers, stop_returned, start_ignored>>

\* line 49: data_store.set_status(RUNNING)
StartStatus(c) ==
    /\ c \in callers /\ ctl_pc[c] = "start_status"
    /\ set_status("running")
    /\ ctl_pc' = [ctl_pc EXCEPT ![c] = "start_spawn"]
    /\ UNCHANGED <<frames, frame_count, current_value, baseline, peak_signal,
                   last_peak_signal, roi_configured, enhanced_peak_frame_count,
                   added, thread, stop_event, proc_frame_count, pc, t_phase,
                   t_roi, t_value, t_peak, callers, stop_returned, start_ignored>>

\* lines 50-51: a new Thread(target=_run) is stored in _thread and started
StartSpawn(c) ==
    /\ c \in callers /\ ctl_pc[c] = "start_spawn"
    /\ \E th \in AllThreads :
         /\ pc[th] = "unborn"
         /\ \A o \in AllThreads : pc[o] = "unborn" => th <= o
         /\ thread' = th
         /\ pc' = [pc EXCEPT ![th] = "loop"]
    /\ ctl_pc' = [ctl_pc EXCEPT ![c] = "idle"]
    /\ UNCHANGED <<storeVars, stop_event, proc_frame_count, t_phase, t_roi,
                   t_value, t_peak, callers, stop_returned, start_ignored>>

\* ---- stop() ----
\* line 55: _stop_event.set()
StopSet(c) ==
    /\ c \in callers /\ ctl_pc[c] = "idle"
    /\ stop_event' = TRUE
    /\ ctl_pc' = [ctl_pc EXCEPT ![c] = "stop_status"]
    /\ UNCHANGED <<storeVars, thread, proc_frame_count, pc, t_phase, t_roi,
                   t_value, t_peak, callers, stop_returned, start_ignored>>

\* line 56: data_store.set_status(STOPPED)
StopStatus(c) ==
    /\ c \in callers /\ ctl_pc[c] = "stop_status"
    /\ set_status("stopped")
    /\ ctl_pc' = [ctl_pc EXCEPT ![c] = "stop_join"]
    /\ UNCHANGED <<frames, frame_count, current_value, baseline, peak_signal,
                   last_peak_signal, roi_configured, enhanced_peak_frame_count,
                   added, thread, stop_event, proc_frame_count, pc, t_phase,
                   t_roi, t_value, t_peak, callers, stop_returned, start_ignored>>

\* lines 60-65: join(timeout=2.0) returns when the thread has exited or when
\* the two seconds are over, whichever comes first; stop() then returns
StopJoin(c) ==
    /\ c \in callers /\ ctl_pc[c] = "stop_join"
    /\ ctl_pc' = [ctl_pc EXCEPT ![c] = "idle"]
    /\ stop_returned' = TRUE
    /\ UNCHANGED <<storeVars, thread, stop_event, proc_frame_count, pc,
                   t_phase, t_roi, t_value, t_peak, callers, start_ignored>>

\* ---- _run() ----
\* lines 72-74: the while test, then self._frame_count += 1
LoopTest(th) ==
    /\ pc[th] = "loop"
    /\ IF stop_event
       THEN /\ pc' = [pc EXCEPT ![th] = "exited"]
            /\ UNCHANGED proc_frame_count
       ELSE /\ proc_frame_count < MaxTicks
            /\ proc_frame_count' = proc_frame_count + 1
            /\ pc' = [pc EXCEPT ![th] = "read_roi"]
    /\ UNCHANGED <<storeVars, thread, stop_event, t_phase, t_roi, t_value,
                   t_peak, callers, ctl_pc, stop_returned, start_ignored>>

\* lines 77-78: is_roi_configured() / get_roi_config()
ReadRoi(th) ==
    /\ pc[th] = "read_roi"
    /\ t_roi' = [t_roi EXCEPT ![th] = roi_configured]
    /\ pc' = [pc EXCEPT ![th] = "sample"]
    /\ UNCHANGED <<storeVars, thread, stop_event, proc_frame_count, t_phase,
                   t_value, t_peak, callers, ctl_pc, stop_returned, start_ignored>>

\* roi_capture.py lines 71 and 125-127: the handler around the body of
\* capture_roi turns an exception into a missing capture
capture_roi(outcome) == IF outcome = Raises THEN None ELSE outcome

\* variant: any capture that is not missing is taken as the sample
signal_value_AnyCapture(roi, roi_data, phase) ==
    IF roi /\ roi_data # None THEN roi_data ELSE SimWave[phase + 1]

\* lines 81-94: the captured gray value when it is usable, else the wave
signal_value(roi, roi_data, phase) ==
    IF roi /\ roi_data # None /\ roi_data > 0
    THEN roi_data
    ELSE SimWave[phase + 1]

\* lines 81-94 with the outcome of the capture given
SampleWith(th, outcome) ==
    /\ pc[th] = "sample"
    /\ t_value' = [t_value EXCEPT ![th] =
           signal_value(t_roi[th], capture_roi(outcome), t_phase[th])]
    /\ pc' = [pc EXCEPT ![th] = "detect"]

\* lines 81-94: the sample of this tick
Sample(th) ==
    /\ \E outcome \in CaptureOutcomes : SampleWith(th, outcome)
    /\ UNCHANGED <<storeVars, thread, stop_event, proc_frame_count, t_phase,
                   t_roi, t_peak, callers, ctl_pc, stop_returned, start_ignored>>

\* lines 97-100 and 121-125: the detection result of this tick
Detect(th) ==
    /\ pc[th] = "detect"
    /\ IF t_roi[th]
       THEN \E r \in DetectorResults : t_peak' = [t_peak EXCEPT ![th] = r]
       ELSE LET b == get_status_snapshot[6]
            IN t_peak' = [t_peak EXCEPT ![th] =
                 IF (t_value[th] - SimpleThreshold) * b.den > b.num THEN 1 ELSE None]
    /\ pc' = [pc EXCEPT ![th] = "store_peak"]
    /\ UNCHANGED <<storeVars, thread, stop_event, proc_frame_count, t_phase,
                   t_roi, t_value, callers, ctl_pc, stop_returned, start_ignored>>

\* line 99: process_frame raises; _run has no handler, the exception leaves
\* the thread's target and the thread ends
DetectRaise(th) ==
    /\ pc[th] = "detect"
    /\ t_roi[th]
    /\ pc' = [pc EXCEPT ![th] = "crashed"]
    /\ UNCHANGED <<storeVars, thread, stop_event, proc_frame_count, t_phase,
                   t_roi, t_value, t_peak, callers, ctl_pc, stop_returned, start_ignored>>

\* lines 103-110 and 128-135: data_store.add_enhanced_peak(...)
StorePeak(th) ==
    /\ pc[th] = "store_peak"
    /\ add_enhanced_peak(t_peak[th], proc_frame_count)
    /\ pc' = [pc EXCEPT ![th] = "add_frame"]
    /\ UNCHANGED <<frames, frame_count, current_value, baseline, status,
                   roi_configured, added, thread, stop_event, proc_frame_count,
                   t_phase, t_roi, t_value, t_peak, callers, ctl_pc,
                   stop_returned, start_ignored>>

\* lines 137-150: data_store.add_frame(...), t += interval, sleep
AddFrame(th) ==
    /\ pc[th] = "add_frame"
    /\ add_frame(t_value[th], proc_frame_count, t_peak[th])
    /\ t_phase' = [t_phase EXCEPT ![th] = (t_phase[th] + 1) % Len(SimWave)]
    /\ pc' = [pc EXCEPT ![th] = "loop"]
    /\ UNCHANGED <<status, roi_configured, enhanced_peak_frame_count, thread,
                   stop_event, proc_frame_count, t_roi, t_value, t_peak,
                   callers, ctl_pc, stop_returned, start_ignored>>

LoopStep(th) ==
    \/ LoopTest(th)
    \/ ReadRoi(th)
    \/ Sample(th)
    \/ Detect(th)
    \/ DetectRaise(th)
    \/ StorePeak(th)
    \/ AddFrame(th)

(***************************************************************************)
(* SocketServer and DataBroadcaster                                        *)
(***************************************************************************)
\* ---- the clients dict ----
\* table holds the entries of the dict in insertion order; an iterator over
\* it is the size it expects (used), the number of entries it has passed
\* (pos - 1) and the number it still expects (len)
\* len(self.clients)
DictLen == Len(table)
\* client_id in self.clients
HasKey(id) == \E i \in DOMAIN table : table[i].id = id
\* self.clients[id] = client: a new key goes to the end, a key already
\* present keeps its place and takes the new value
DictSet(id, conn) ==
    IF HasKey(id)
    THEN [i \in DOMAIN table |->
            IF table[i].id = id THEN [id |-> id, conn |-> conn] ELSE table[i]]
    ELSE Append(table, [id |-> id, conn |-> conn])
\* del self.clients[id] for every id of ids that is present
DictDel(ids) == SelectSeq(table, LAMBDA e : e.id \notin ids)
\* the same deletion seen by an iterator: the entries it has passed and
\* that are gone no longer stand before it
IterAfterDel(it, ids) ==
    [it EXCEPT !.pos = it.pos - Cardinality({i \in DOMAIN table :
                                    i < it.pos /\ table[i].id \in ids})]
\* the connections whose SocketClient is a value of the dict
InTable(k) == \E i \in DOMAIN table : table[i].conn = k
\* iter(self.clients.items())
NewIter == [used |-> DictLen, pos |-> 1, len |-> DictLen]
\* no iterator
NoIter == [used |-> 0, pos |-> 1, len |-> 0]

\* ---- client_id ----
\* A client_id is <<len(self.clients), int(time.time() * 1000)>> as read at
\* line 126.  Ids are only ever compared for equality and the clock never
\* goes back, so the millisecond readings are kept up to an order-preserving
\* renumbering, and an id that is no key of the dict and cannot become one
\* again (its reading is not the current one) is kept as NoId.
\* ids is everything that holds a client_id: the dict, each handler's
\* client_id, disconnected_clients, dead_clients, the awaited send, and the
\* current millisecond reading.
CurIds == [table |-> table, cid |-> cid, disc |-> bc_disc, dead |-> hb_dead,
           to |-> bc_to, ms |-> ms]
Keys(r) == {r.table[i].id : i \in DOMAIN r.table}
HeldIds(r) ==
    Keys(r) \cup {r.cid[k] : k \in Conns} \cup r.disc \cup r.dead \cup {r.to.id}
\* the current reading matters while some id carries it
MsKept(r) == r.ms # None /\ \E id \in HeldIds(r) : id # NoId /\ id[2] = r.ms
LiveId(r, id) ==
    /\ id # NoId
    /\ id \in Keys(r) \/ (MsKept(r) /\ id[2] = r.ms)
Stamps(r) == {id[2] : id \in {x \in HeldIds(r) : LiveId(r, x)}}
CanonId(r, id) ==
    IF LiveId(r, id)
    THEN <<id[1], Cardinality({s \in Stamps(r) : s < id[2]})>>
    ELSE NoId
\* the new values of everything that holds a client_id
Commit(r) ==
    /\ table' = [i \in DOMAIN r.table |->
                    [id |-> CanonId(r, r.table[i].id), conn |-> r.table[i].conn]]
    /\ cid' = [k \in Conns |-> CanonId(r, r.cid[k])]
    /\ bc_disc' = {CanonId(r, id) : id \in {x \in r.disc : LiveId(r, x)}}
    /\ hb_dead' = {CanonId(r, id) : id \in {x \in r.dead : LiveId(r, x)}}
    /\ bc_to' = [id |-> CanonId(r, r.to.id), conn |-> r.to.conn]
    /\ ms' = IF MsKept(r)
             THEN Cardinality({s \in Stamps(r) : s < r.ms}) ELSE None

\* a millisecond reading later than every reading taken so far
FreshStamp == Cardinality(Stamps(CurIds))
\* int(time.time() * 1000): the reading of the previous connection when the
\* new one arrives within the same millisecond, a later one otherwise
ReadMs(same_ms) == IF same_ms /\ ms # None THEN ms ELSE FreshStamp

\* SocketClient.is_alive(): (time.time() - self.last_pong) < timeout
client_is_alive(k) == pong_age[k] < Timeout

\* variant: the table is full only once it holds more than max_clients
at_capacity_OffByOne == DictLen > max_clients

\* line 129: len(self.clients) >= self.max_clients
at_capacity == DictLen >= max_clients

\* the message type a broadcast carries
TopicOf(kind) ==
    IF kind = "db_realtime_data" THEN "realtime_data" ELSE "system_status"

\* the message_filter each broadcast hands to broadcast_message:
\* DataBroadcaster tests is_authenticated and the topic,
\* SocketServer.send_system_status passes no filter
Matches(kind, k) ==
    CASE kind = "db_realtime_data" ->
            authenticated[k] /\ "realtime_data" \in subscriptions[k]
      [] kind = "ss_system_status" -> TRUE

HubInit ==
    /\ max_clients \in 1..MaxClients
    /\ ms = None
    /\ table = <<>>
    /\ h_pc = [k \in Conns |-> "none"]
    /\ rejecting = FALSE
    /\ cid = [k \in Conns |-> NoId]
    /\ authenticated = [k \in Conns |-> FALSE]
    /\ subscriptions = [k \in Conns |-> {}]
    /\ pong_age = [k \in Conns |-> 0]
    /\ bc_pc = "idle"
    /\ bc_kind = "none"
    /\ bc_it = NoIter
    /\ bc_disc = {}
    /\ bc_to = NoEntry
    /\ bc_owed = {}
    /\ bc_failed = FALSE
    /\ hb_pc = "sleep"
    /\ hb_it = NoIter
    /\ hb_dead = {}
    /\ last_msg = NoMsg

\* ---- handle_client ----
\* lines 126-137: a connection arrives; it is turned away when the table is
\* full, otherwise its SocketClient is stored under client_id
Connect(same_ms) ==
    /\ LET client_id == <<DictLen, ReadMs(same_ms)>>
       IN IF at_capacity
          THEN /\ ~rejecting
               /\ rejecting' = TRUE
               /\ UNCHANGED <<ms, table, h_pc, cid, pong_age, bc_disc, bc_to,
                              hb_dead>>
          ELSE \E k \in Conns :
               /\ h_pc[k] = "none"
               /\ \A j \in Conns : h_pc[j] = "none" => k <= j
               /\ h_pc' = [h_pc EXCEPT ![k] = "open"]
               /\ Commit([CurIds EXCEPT !.table = DictSet(client_id, k),
                                        !.cid[k] = client_id,
                                        !.ms = client_id[2]])
               /\ pong_age' = [pong_age EXCEPT ![k] = 0]
               /\ UNCHANGED rejecting
    /\ UNCHANGED <<authenticated, subscriptions, bc_pc, bc_kind,
                   bc_it, bc_owed, bc_failed, hb_pc, hb_it>>

\* lines 131-132: websocket.close(1013) has returned, the handler returns
CloseRejected ==
    /\ rejecting
    /\ rejecting' = FALSE
    /\ UNCHANGED <<ms, table, h_pc, cid, authenticated, subscriptions, pong_age,
                   bc_pc, bc_kind, bc_it, bc_disc, bc_to, bc_owed, bc_failed,
                   hb_pc, hb_it, hb_dead>>

\* lines 166-174: the connection is closed; the finally block deletes the
\* entry stored under this handler's client_id
Disconnect(k) ==
    /\ h_pc[k] = "open"
    /\ h_pc' = [h_pc EXCEPT ![k] = "none"]
    /\ Commit([CurIds EXCEPT
                 !.table = DictDel({cid[k]}),
                 !.cid[k] = NoId,
                 \* the SocketClient object is dropped with its handler
                 !.to.conn = IF bc_to.conn = k THEN 0 ELSE bc_to.conn])
    /\ bc_it' = IterAfterDel(bc_it, {cid[k]})
    /\ hb_it' = IterAfterDel(hb_it, {cid[k]})
    /\ authenticated' = [authenticated EXCEPT ![k] = FALSE]
    /\ subscriptions' = [subscriptions EXCEPT ![k] = {}]
    /\ pong_age' = [pong_age EXCEPT ![k] = 0]
    /\ bc_owed' = bc_owed \ {k}
    /\ UNCHANGED <<rejecting, bc_pc, bc_kind, bc_failed, hb_pc>>

\* ---- handle_message ----
\* lines 181-183: pong
MsgPong(k) ==
    /\ h_pc[k] = "open"
    /\ pong_age' = [pong_age EXCEPT ![k] = 0]
    /\ UNCHANGED <<ms, table, h_pc, rejecting, cid, authenticated,
                   subscriptions, bc_pc, bc_kind, bc_it, bc_disc, bc_to,
                   bc_owed, bc_failed, hb_pc, hb_it, hb_dead>>

\* variant: any auth message authenticates
MsgAuth_AnyPassword(k, password_ok) ==
    /\ h_pc[k] = "open"
    /\ authenticated' = [authenticated EXCEPT ![k] = TRUE]
    /\ UNCHANGED <<ms, table, h_pc, rejecting, cid, subscriptions, pong_age,
                   bc_pc, bc_kind, bc_it, bc_disc, bc_to, bc_owed,
                   bc_failed, hb_pc, hb_it, hb_dead>>

\* lines 186-201: auth with the configured password or with another one
MsgAuth(k, password_ok) ==
    /\ h_pc[k] = "open"
    /\ authenticated' = [authenticated EXCEPT ![k] = password_ok \/ authenticated[k]]
    /\ UNCHANGED <<ms, table, h_pc, rejecting, cid, subscriptions, pong_age,
                   bc_pc, bc_kind, bc_it, bc_disc, bc_to, bc_owed,
                   bc_failed, hb_pc, hb_it, hb_dead>>

\* lines 204-214: subscribe; the registered handler adds the topic
MsgSubscribe(k, topic) ==
    /\ h_pc[k] = "open"
    /\ subscriptions' = [subscriptions EXCEPT ![k] =
            IF authenticated[k] THEN subscriptions[k] \cup {topic}
            ELSE subscriptions[k]]
    /\ UNCHANGED <<ms, table, h_pc, rejecting, cid, authenticated, pong_age,
                   bc_pc, bc_kind, bc_it, bc_disc, bc_to, bc_owed,
                   bc_failed, hb_pc, hb_it, hb_dead>>

\* variant: any message served counts as a sign of life
MsgOther_RefreshesPong(k) ==
    /\ h_pc[k] = "open"
    /\ pong_age' = [pong_age EXCEPT ![k] = 0]
    /\ UNCHANGED <<ms, table, h_pc, rejecting, cid, authenticated,
                   subscriptions, bc_pc, bc_kind, bc_it, bc_disc,
                   bc_to, bc_owed, bc_failed, hb_pc, hb_it, hb_dead>>

\* lines 204-226: a message that is neither pong nor auth and has no
\* registered handler: it is answered and changes nothing
MsgOther(k) ==
    /\ h_pc[k] = "open"
    /\ UNCHANGED <<ms, table, h_pc, rejecting, cid, authenticated,
                   subscriptions, pong_age, bc_pc, bc_kind, bc_it, bc_disc,
                   bc_to, bc_owed, bc_failed, hb_pc, hb_it, hb_dead>>

\* lines 204 and 212: whether handle_message hands the message to a handler
dispatched(k, message_type) ==
    /\ message_type \notin {"pong", "auth"}
    /\ authenticated[k] \/ message_type = "ping"
    /\ message_type \in message_handlers

\* the message handle_message sends back, "none" when it sends nothing
reply(k, message_type, password_ok) ==
    CASE message_type = "pong" -> "none"
      [] message_type = "auth" ->
            IF password_ok THEN "auth_success" ELSE "auth_error"
      [] OTHER ->
            IF ~authenticated[k] /\ message_type # "ping"
            THEN "Authentication required"
            ELSE IF message_type \in message_handlers THEN "none"
                 ELSE "Unknown message type"

\* lines 176-226: handle_message with what it was sent and what it answered
HandleMessage(k, message_type, password_ok) ==
    /\ CASE message_type = "pong" -> MsgPong(k)
         [] message_type = "auth" -> MsgAuth(k, password_ok)
         [] message_type = "subscribe" -> MsgSubscribe(k, "realtime_data")
         [] OTHER -> MsgOther(k)
    /\ last_msg' = [conn |-> k, type |-> message_type,
                    password_ok |-> (message_type = "auth" /\ password_ok),
                    reply |-> reply(k, message_type, password_ok),
                    dispatched |-> dispatched(k, message_type)]

\* ---- broadcast_message ----
\* lines 236-249: the loop runs from one await to the next: it skips the
\* clients the filter turns down and stops at the next send, at the end of
\* the dict, or at the iterator's RuntimeError
RECURSIVE BcScan(_, _, _)
BcScan(pos, len, kind) ==
    IF pos > Len(table)
    THEN [res |-> "end", pos |-> pos, len |-> len, to |-> NoEntry]
    ELSE IF len = 0
         THEN [res |-> "error", pos |-> pos, len |-> len, to |-> NoEntry]
         ELSE IF Matches(kind, table[pos].conn)
              THEN [res |-> "send", pos |-> pos + 1, len |-> len - 1,
                    to |-> table[pos]]
              ELSE BcScan(pos + 1, len - 1, kind)

\* what the next stretch of the loop does: next() raises RuntimeError when
\* the dict no longer has the size the iterator was made for
BcOutcome(kind, it) ==
    IF it.used # DictLen
    THEN [res |-> "error", pos |-> it.pos, len |-> it.len, to |-> NoEntry]
    ELSE BcScan(it.pos, it.len, kind)

\* owed are the clients of the dict, matching the filter when the
\* broadcast began, that this broadcast has still to reach,
\* failed tells whether one of its sends has failed
BcRun(kind, it, disc, owed, failed) ==
    LET r == BcOutcome(kind, it)
    IN CASE r.res = "error" ->
               \* RuntimeError out of the for statement: the broadcast ends
               \* here, nothing is pruned
               /\ bc_pc' = "idle"
               /\ bc_kind' = "none"
               /\ bc_it' = NoIter
               /\ bc_owed' = {}
               /\ bc_failed' = FALSE
               /\ Commit([CurIds EXCEPT !.disc = {}, !.to = NoEntry])
               /\ UNCHANGED hb_it
         [] r.res = "send" ->
               \* line 243: await client.send_message(message)
               /\ bc_pc' = "await"
               /\ bc_kind' = kind
               /\ bc_it' = [it EXCEPT !.pos = r.pos, !.len = r.len]
               /\ bc_owed' = owed \ {table[i].conn : i \in it.pos..(r.pos - 1)}
               /\ bc_failed' = failed
               /\ Commit([CurIds EXCEPT !.disc = disc, !.to = r.to])
               /\ UNCHANGED hb_it
         [] r.res = "end" ->
               \* lines 252-255: prune the clients whose send failed
               /\ bc_pc' = "idle"
               /\ bc_kind' = "none"
               /\ bc_it' = NoIter
               /\ bc_owed' = {}
               /\ bc_failed' = FALSE
               /\ Commit([CurIds EXCEPT !.disc = {}, !.to = NoEntry,
                                        !.table = DictDel(disc)])
               /\ hb_it' = IterAfterDel(hb_it, disc)

\* lines 231-243: a broadcast begins and runs to its first await
BroadcastStart(kind) ==
    /\ bc_pc = "idle"
    /\ DictLen > 0
    /\ BcRun(kind, NewIter, {},
             {table[i].conn : i \in {j \in DOMAIN table : Matches(kind, table[j].conn)}},
             FALSE)
    /\ UNCHANGED <<h_pc, rejecting, authenticated, subscriptions,
                   pong_age, hb_pc>>

\* lines 243-245: the awaited send has returned, with success or not
BroadcastResume(send_ok) ==
    /\ bc_pc = "await"
    /\ BcRun(bc_kind, bc_it,
             IF send_ok THEN bc_disc ELSE bc_disc \cup {bc_to.id},
             bc_owed, bc_failed \/ ~send_ok)
    /\ UNCHANGED <<h_pc, rejecting, authenticated, subscriptions,
                   pong_age, hb_pc>>

\* ---- heartbeat_loop ----
\* lines 285-290: from one await to the next: a client that is not alive is
\* put on dead_clients, a client that is alive is pinged
RECURSIVE HbScan(_, _, _)
HbScan(pos, len, dead) ==
    IF pos > Len(table)
    THEN [res |-> "end", pos |-> pos, len |-> len, dead |-> dead]
    ELSE IF len = 0
         THEN [res |-> "error", pos |-> pos, len |-> len, dead |-> dead]
         ELSE IF ~client_is_alive(table[pos].conn)
              THEN HbScan(pos + 1, len - 1, dead \cup {table[pos].id})
              ELSE [res |-> "ping", pos |-> pos + 1, len |-> len - 1,
                    dead |-> dead]

HbOutcome(it, dead) ==
    IF it.used # DictLen
    THEN [res |-> "error", pos |-> it.pos, len |-> it.len, dead |-> dead]
    ELSE HbScan(it.pos, it.len, dead)

HbRun(it, dead) ==
    LET r == HbOutcome(it, dead)
    IN CASE r.res = "error" ->
               \* RuntimeError, caught at line 300: sleep(5) and start over
               /\ hb_pc' = "sleep"
               /\ hb_it' = NoIter
               /\ Commit([CurIds EXCEPT !.dead = {}])
               /\ UNCHANGED bc_it
         [] r.res = "ping" ->
               \* line 290: await client.ping()
               /\ hb_pc' = "await"
               /\ hb_it' = [it EXCEPT !.pos = r.pos, !.len = r.len]
               /\ Commit([CurIds EXCEPT !.dead = r.dead])
               /\ UNCHANGED bc_it
         [] r.res = "end" ->
               \* lines 293-298: remove the dead clients, sleep(10)
               /\ hb_pc' = "sleep"
               /\ hb_it' = NoIter
               /\ Commit([CurIds EXCEPT !.dead = {},
                                        !.table = DictDel(r.dead)])
               /\ bc_it' = IterAfterDel(bc_it, r.dead)

\* line 281: the sleep is over, a new pass begins
HeartbeatWake ==
    /\ hb_pc = "sleep"
    /\ HbRun(NewIter, {})
    /\ UNCHANGED <<h_pc, rejecting, authenticated, subscriptions,
                   pong_age, bc_pc, bc_kind, bc_owed, bc_failed>>

\* line 290: the awaited ping has returned
HeartbeatResume ==
    /\ hb_pc = "await"
    /\ HbRun(hb_it, hb_dead)
    /\ UNCHANGED <<h_pc, rejecting, authenticated, subscriptions,
                   pong_age, bc_pc, bc_kind, bc_owed, bc_failed>>

\* ---- subscribers that answer every ping ----
\* the time since the last pong of each client once the client the
\* heartbeat has just pinged (the entry before the iterator) has answered
answered(it, age) ==
    [k \in Conns |->
        IF it.pos - 1 \in DOMAIN table /\ table[it.pos - 1].conn = k THEN 0 ELSE age[k]]

\* line 281 with line 290: a new pass begins; the client it pings answers
\* with a pong at once (lines 181-183)
HeartbeatWakeAnswered ==
    /\ hb_pc = "sleep"
    /\ HbRun(NewIter, {})
    /\ pong_age' = IF hb_pc' = "await" THEN answered(hb_it', pong_age) ELSE pong_age
    /\ UNCHANGED <<h_pc, rejecting, authenticated, subscriptions,
                   bc_pc, bc_kind, bc_owed, bc_failed>>

\* line 290: the awaited ping has returned, the pinged client has answered
\* by now at the latest; the next client that is pinged answers at once
HeartbeatResumeAnswered ==
    /\ hb_pc = "await"
    /\ HbRun(hb_it, hb_dead)
    /\ pong_age' = IF hb_pc' = "await"
                   THEN answered(hb_it', answered(hb_it, pong_age))
                   ELSE answered(hb_it, pong_age)
    /\ UNCHANGED <<h_pc, rejecting, authenticated, subscriptions,
                   bc_pc, bc_kind, bc_owed, bc_failed>>

\* the clock: time.time() moves on by TimeStep seconds, and with it the
\* millisecond reading
AdvanceTime ==
    /\ pong_age' = [k \in Conns |->
            IF h_pc[k] = "open" THEN Min(pong_age[k] + TimeStep, Timeout)
            ELSE pong_age[k]]
    /\ Commit([CurIds EXCEPT !.ms = None])
    /\ UNCHANGED <<h_pc, rejecting, authenticated, subscriptions,
                   bc_pc, bc_kind, bc_it, bc_owed, bc_failed, hb_pc, hb_it>>

(***************************************************************************)
(* EnhancedPeakDetector                                                    *)
(*                                                                         *)
(* Samples are whole gray levels.  Slopes are kept in twelfths (the        *)
(* 5-point difference divides by 12), slope thresholds in sixtieths, the   *)
(* dynamic threshold in forty-fifths, scores in millionths: with whole     *)
(* samples these values are exact.  The weights of the robust slope and    *)
(* the components of the quality score are kept in thousandths, rounded    *)
(* down, and the 1e-6 the code adds to a denominator only decides the      *)
(* case of a zero denominator.                                             *)
(***************************************************************************)
Abs(x) == IF x < 0 THEN 0 - x ELSE x

RECURSIVE SumSeq(_)
SumSeq(s) == IF s = <<>> THEN 0 ELSE s[1] + SumSeq(Tail(s))
\* max(s) and min(s) of a non-empty list
MaxSeq(s) == CHOOSE v \in {s[i] : i \in DOMAIN s} : \A i \in DOMAIN s : s[i] <= v
MinSeq(s) == CHOOSE v \in {s[i] : i \in DOMAIN s} : \A i \in DOMAIN s : s[i] >= v
\* s[i] and s[a:b] with Python's positions, counted from 0
At(s, i) == s[i + 1]
Slice(s, a, b) ==
    LET lo == Max(a, 0)
        hi == Min(b, Len(s))
    IN IF lo >= hi THEN <<>> ELSE SubSeq(s, lo + 1, hi)
\* s.index(v): the first position of v
IndexOf(s, v) == (CHOOSE i \in DOMAIN s : s[i] = v /\ \A j \in 1..(i - 1) : s[j] # v) - 1
\* sorted(s)[k]
KthSmallest(s, k) ==
    CHOOSE v \in {s[i] : i \in DOMAIN s} :
        /\ Cardinality({i \in DOMAIN s : s[i] < v}) <= k
        /\ Cardinality({i \in DOMAIN s : s[i] <= v}) > k
\* the whole part of a square root (x ** 0.5)
RECURSIVE IsqrtFrom(_, _, _)
IsqrtFrom(n, r, b) ==
    IF b = 0 THEN r
    ELSE IF r + b <= 46340 /\ (r + b) * (r + b) <= n
         THEN IsqrtFrom(n, r + b, b \div 2)
         ELSE IsqrtFrom(n, r, b \div 2)
Isqrt(n) == IsqrtFrom(n, 0, 32768)

\* PeakDetectionConfig(threshold, margin_frames, difference_threshold,
\* min_region_length) with the other fields at their defaults;
\* difference_threshold is kept in tenths
PeakDetectionConfig(threshold, margin_frames, difference_threshold) ==
    [threshold |-> threshold, margin_frames |-> margin_frames,
     difference_threshold |-> difference_threshold,
     min_slope_frames |-> MinSlopeFrames, window_size |-> WindowSize]

\* the configuration of the scenario: threshold=120, marginFrames=3,
\* differenceThreshold=1.0
ScenarioConfig == PeakDetectionConfig(120, 3, 10)
\* the defaults of the dataclass: 105.0, 5, 2.1
DefaultConfig == PeakDetectionConfig(105, 5, 21)
\* the largest threshold the configuration route lets through
HighConfig == PeakDetectionConfig(255, 3, 10)
\* a configuration with a short window
ShortWindowConfig == [ScenarioConfig EXCEPT !.window_size = ShortWindow]
\* a configuration object with min_slope_frames=0
ZeroSlopeConfig == [DefaultConfig EXCEPT !.min_slope_frames = 0]
\* the PeakDetectionConfig objects update_config is handed
Configs == {ScenarioConfig, DefaultConfig, HighConfig, ShortWindowConfig,
            ZeroSlopeConfig}

\* ---- the sample sequences fed to process_frame ----
Flat(v, n) == [i \in 1..n |-> v]
\* 30 ticks of baseline 100, a ramp 100->150 over 5 ticks, a hold at 150
\* for 3 ticks, a drop 150->post over 5 ticks
Episode(post) ==
    Flat(100, 30) \o <<110, 120, 130, 140, 150>> \o Flat(150, 3)
        \o [i \in 1..5 |-> 150 - ((150 - post) * i) \div 5]
\* a shorter episode
ShortPulse == <<110, 120, 130, 140, 150, 150, 125>> \o Flat(100, 8)
\* every run of FreeLen samples at three levels
FreeRuns == [1..FreeLen -> {100, 130, 150}]
\* the episode after a longer baseline, long enough for the adaptive threshold
LongEpisode == Flat(100, 20) \o Episode(100)
Scripts == {Episode(100), Episode(102), Episode(110), LongEpisode, Flat(100, FlatTicks), ShortPulse}
               \cup FreeRuns
RaceScripts == {ShortPulse} \cup FreeRuns

\* ---- slopes ----
\* _calculate_slope, in twelfths
RECURSIVE calculate_slope(_, _, _)
calculate_slope(frame_data, index, method) ==
    LET n == Len(frame_data)
    IN IF index < 0 \/ index >= n THEN 0
       ELSE CASE method = "central_3point" ->
                    IF index < 1 \/ index >= n - 1 THEN 0
                    ELSE 6 * (At(frame_data, index + 1) - At(frame_data, index - 1))
              [] method = "central_5point" ->
                    IF index < 2 \/ index >= n - 2
                    THEN calculate_slope(frame_data, index, "central_3point")
                    ELSE (0 - At(frame_data, index + 2)) + 8 * At(frame_data, index + 1)
                         - 8 * At(frame_data, index - 1) + At(frame_data, index - 2)
              [] method = "forward_2point" ->
                    IF index >= n - 1 THEN 0
                    ELSE 12 * (At(frame_data, index + 1) - At(frame_data, index))
              [] method = "backward_2point" ->
                    IF index < 1 THEN 0
                    ELSE 12 * (At(frame_data, index) - At(frame_data, index - 1))

\* _calculate_robust_slope: the slope estimates, weighted by their distance
\* from their median; the result is num/den twelfths
calculate_robust_slope(frame_data, index) ==
    LET n == Len(frame_data)
        slopes ==
            (IF index >= 1 /\ index < n - 1
             THEN <<calculate_slope(frame_data, index, "central_3point")>> ELSE <<>>)
            \o (IF index >= 2 /\ index < n - 2
                THEN <<calculate_slope(frame_data, index, "central_5point")>> ELSE <<>>)
            \o (IF index < n - 1
                THEN <<calculate_slope(frame_data, index, "forward_2point")>> ELSE <<>>)
            \o (IF index >= 1
                THEN <<calculate_slope(frame_data, index, "backward_2point")>> ELSE <<>>)
        weighted(s, weight) ==
            [num |-> SumSeq([i \in DOMAIN s |-> s[i] * weight[i]]), den |-> SumSeq(weight)]
        \* mad = devsum / k; a weight is 1 / (1 + dev / mad), in thousandths
        spread(s, median_slope, dev, devsum) ==
            IF devsum = 0 THEN [num |-> median_slope, den |-> 1]
            ELSE weighted(s, [i \in DOMAIN s |->
                                (Scale * devsum) \div (devsum + Len(s) * dev[i])])
        around(s, median_slope, dev) == spread(s, median_slope, dev, SumSeq(dev))
        about(s, median_slope) ==
            around(s, median_slope, [i \in DOMAIN s |-> Abs(s[i] - median_slope)])
        robust(s) ==
            IF s = <<>> THEN [num |-> 0, den |-> 1]
            ELSE about(s, KthSmallest(s, Len(s) \div 2))
    IN robust(slopes)

\* combined_slope > slope_threshold and combined_slope < -slope_threshold,
\* for a threshold in sixtieths
SlopeAbove(frame_data, index, slope_threshold) ==
    LET above(s) == 5 * s.num > slope_threshold * s.den
    IN above(calculate_robust_slope(frame_data, index))
SlopeBelow(frame_data, index, slope_threshold) ==
    LET below(s) == 5 * s.num < (0 - slope_threshold) * s.den
    IN below(calculate_robust_slope(frame_data, index))

\* _calculate_dynamic_threshold(frame_data), in forty-fifths: the configured
\* threshold below baseline_window samples, otherwise
\* (median + (q3 - q1) / 1.35 * 0.1) * 1.2 kept within [80, 150]
calculate_dynamic_threshold(config, frame_data) ==
    IF Len(frame_data) < BaselineWindow THEN 45 * config.threshold
    ELSE LET baseline_data == SliceLast(frame_data, BaselineWindow)
             m == Len(baseline_data)
             q1 == KthSmallest(baseline_data, m \div 4)
             q3 == KthSmallest(baseline_data, (3 * m) \div 4)
             median == KthSmallest(baseline_data, m \div 2)
         IN Max(45 * MinDynamicThreshold,
                Min(45 * MaxDynamicThreshold, 54 * median + 4 * (q3 - q1)))

\* _get_adaptive_slope_threshold, in sixtieths: slope_threshold times 0.7
\* when the last nine 3-point slopes have a standard deviation above 2.0,
\* times 1.3 when it is below 0.5
get_adaptive_slope_threshold(frame_data) ==
    LET n == Len(frame_data)
    IN IF n < 10 THEN SlopeThreshold
       ELSE LET \* |slope|, in halves
                a == [i \in 1..9 |->
                        Abs(calculate_slope(frame_data, n - 11 + i, "central_3point")) \div 6]
                \* 324 times the variance
                v == 9 * SumSeq([i \in 1..9 |-> a[i] * a[i]]) - SumSeq(a) * SumSeq(a)
            IN IF v > 1296 THEN (SlopeThreshold * 7) \div 10
               ELSE IF v < 81 THEN (SlopeThreshold * 13) \div 10
               ELSE SlopeThreshold

\* ---- the search for a rise and a fall ----
\* variant: the rising run may start at a sample below the threshold
RisingStart_AnyLevel(segment_data, i, threshold) == TRUE

\* line 775: segment_data[i] > threshold
RisingStart(segment_data, i, threshold) == 45 * At(segment_data, i) > threshold

\* _detect_rising_slope_in_segment: the first position above the threshold
\* from which min_slope_frames robust slopes in a row exceed slope_threshold
detect_rising_slope_in_segment(config, segment_data, threshold, slope_threshold) ==
    LET msf == config.min_slope_frames
        run(i) == i..(Min(i + msf, Len(segment_data)) - 1)
        rising_count(i) ==
            Cardinality({j \in run(i) : SlopeAbove(segment_data, j, slope_threshold)})
        \* the sum of the slopes, in whole twelfths
        whole(s) == s.num \div s.den
        total_slope(i) ==
            SumSeq([x \in 1..Cardinality(run(i)) |->
                        whole(calculate_robust_slope(segment_data, i + x - 1))])
        first(found) ==
            IF found = {} THEN None ELSE CHOOSE i \in found : \A j \in found : i <= j
    IN first({i \in 0..(Len(segment_data) - msf - 1) :
                /\ RisingStart(segment_data, i, threshold)
                /\ rising_count(i) >= msf
                /\ total_slope(i) > 0})

\* _detect_falling_slope_in_segment: the last position before which
\* min_slope_frames robust slopes in a row are below -slope_threshold
detect_falling_slope_in_segment(config, segment_data, slope_threshold) ==
    LET msf == config.min_slope_frames
        falling_count(i) ==
            Cardinality({j \in (Max(i - msf, 0) + 1)..i :
                            SlopeBelow(segment_data, j, slope_threshold)})
        \* total_slope sums |slope| over the falling frames: positive when
        \* there is one
        enough(count) == count >= msf /\ count > 0
        last(found) ==
            IF found = {} THEN None ELSE CHOOSE i \in found : \A j \in found : i >= j
    IN last({i \in (msf + 1)..(Len(segment_data) - 1) : enough(falling_count(i))})

\* ---- the quality of a candidate ----
\* _calculate_peak_quality: score in millionths, with amplitude and width
calculate_peak_quality(frame_data, rise_pos, fall_pos) ==
    LET n == Len(frame_data)
    IN IF rise_pos >= fall_pos \/ fall_pos >= n
       THEN [score |-> 0, amplitude |-> 0, width |-> 0]
       ELSE
       LET peak_data == Slice(frame_data, rise_pos, fall_pos + 1)
           max_value == MaxSeq(peak_data)
           min_value == MinSeq(Slice(frame_data, Max(0, rise_pos - 5), fall_pos + 6))
           peak_amplitude == max_value - min_value
           peak_width == fall_pos - rise_pos
           \* symmetry = |index - width/2| / (width/2 + 1)
           symmetry == (Scale * Abs(2 * IndexOf(peak_data, max_value) - peak_width))
                            \div (peak_width + 2)
           \* signal_noise / 5
           baseline_region == SliceLast(frame_data, 20)
           \* 400 times the variance of the last 20 frames
           variance == 20 * SumSeq([i \in 1..20 |-> baseline_region[i] * baseline_region[i]])
                        - SumSeq(baseline_region) * SumSeq(baseline_region)
           signal_noise ==
               IF n > 20
               THEN IF variance > 0
                    THEN (32 * peak_amplitude * Scale) \div Isqrt(64 * variance)
                    ELSE (Scale * peak_amplitude) \div 5
               ELSE Scale \div 5
           \* 3-point slopes inside the peak, in halves
           slopes_in_peak ==
               [x \in 1..(Min(fall_pos, n - 1) - rise_pos) |->
                   calculate_slope(frame_data, rise_pos + x - 1, "central_3point") \div 6]
           slope_sum == SumSeq(slopes_in_peak)
           spread == MaxSeq(slopes_in_peak) - MinSeq(slopes_in_peak)
           trend_consistency ==
               IF slopes_in_peak = <<>> THEN Scale
               ELSE IF slope_sum = 0
                    THEN IF spread = 0 THEN Scale ELSE 0
                    ELSE Max(0, Scale - (Scale * Len(slopes_in_peak) * spread)
                                            \div Abs(slope_sum))
           score == 200 * Min(Scale, (Scale * peak_amplitude) \div 20)
                    + 150 * Min(Scale, (Scale * peak_width) \div 10)
                    + 150 * Max(0, Scale - symmetry)
                    + 200 * Min(Scale, (Scale * peak_amplitude) \div (2 * (peak_width + 1)))
                    + 200 * Min(Scale, signal_noise)
                    + 100 * trend_consistency
       IN [score |-> Min(1000 * Scale, Max(0, score)),
           amplitude |-> peak_amplitude, width |-> peak_width]

\* variant: a candidate of any width is valid
validate_peak_quality_AnyWidth(frame_data, rise_pos, fall_pos) ==
    LET is_valid(quality) ==
            /\ ~(quality.score < 400 * Scale)
            /\ ~(quality.amplitude < 5)
            /\ ~(quality.width < 2)
    IN is_valid(calculate_peak_quality(frame_data, rise_pos, fall_pos))

\* _validate_peak_quality: is_valid
validate_peak_quality(frame_data, rise_pos, fall_pos) ==
    LET is_valid(quality) ==
            /\ ~(quality.score < 400 * Scale)
            /\ ~(quality.amplitude < 5)
            /\ ~(quality.width < 2)
            /\ ~(fall_pos - rise_pos > Len(frame_data) \div 3)
    IN is_valid(calculate_peak_quality(frame_data, rise_pos, fall_pos))

\* ---- the candidates of a window ----
ranges_overlap(range1, range2) == ~(range1[2] < range2[1] \/ range2[2] < range1[1])

\* lines 719-760: the loop over the search segments, from segment `start` on
RECURSIVE detect_from(_, _, _, _, _, _)
detect_from(config, frame_data, start, peaks, threshold, slope_threshold) ==
    LET msf == config.min_slope_frames
        search_window == msf * 2
        n == Len(frame_data)
        end == Min(start + search_window, n)
        processed == \E p \in DOMAIN peaks :
            ranges_overlap(<<start, end>>, <<peaks[p].rise_pos, peaks[p].fall_pos>>)
        \* lines 746-760: a rise and a fall far enough apart, of good quality
        scored(rise_pos, fall_pos, peak_quality) ==
            IF /\ rise_pos < fall_pos
               /\ fall_pos - rise_pos >= msf
               /\ peak_quality.score > 300 * Scale
            THEN Append(peaks, [rise_pos |-> rise_pos, fall_pos |-> fall_pos,
                                confidence |-> peak_quality.score])
            ELSE peaks
        \* lines 739-745: the fall is searched from the rise on
        fallen(rise_pos, fall_result) ==
            IF fall_result = None THEN peaks
            ELSE scored(rise_pos, rise_pos + fall_result,
                        calculate_peak_quality(frame_data, rise_pos, rise_pos + fall_result))
        risen(rise_result) ==
            IF rise_result = None THEN peaks
            ELSE fallen(start + rise_result,
                        detect_falling_slope_in_segment(config,
                            Slice(frame_data, start + rise_result, n), slope_threshold))
        next == IF processed THEN peaks
                ELSE risen(detect_rising_slope_in_segment(config,
                               Slice(frame_data, start, end), threshold, slope_threshold))
    IN IF start >= n - search_window THEN peaks
       ELSE detect_from(config, frame_data, start + search_window \div 2, next,
                        threshold, slope_threshold)

\* list.sort(key=...): a stable sort by an integer key
SortByKey(s, key) ==
    LET rank(i) == Cardinality({j \in DOMAIN s : key[j] < key[i]})
                   + Cardinality({j \in 1..(i - 1) : key[j] = key[i]}) + 1
    IN [p \in DOMAIN s |-> s[CHOOSE i \in DOMAIN s : rank(i) = p]]

\* _deduplicate_peaks, from the i-th peak of the list sorted by rise_pos on
RECURSIVE deduplicate_from(_, _, _, _)
deduplicate_from(config, peaks, i, deduplicated) ==
    IF i > Len(peaks) THEN deduplicated
    ELSE LET peak == peaks[i]
             last_peak == deduplicated[Len(deduplicated)]
             distance == peak.rise_pos - last_peak.fall_pos
             next == IF distance < config.min_slope_frames
                     THEN IF peak.confidence > last_peak.confidence
                          THEN [deduplicated EXCEPT ![Len(deduplicated)] = peak]
                          ELSE deduplicated
                     ELSE Append(deduplicated, peak)
         IN deduplicate_from(config, peaks, i + 1, next)

deduplicate_peaks(config, peaks) ==
    LET merged(sorted) == deduplicate_from(config, sorted, 2, <<sorted[1]>>)
    IN IF Len(peaks) <= 1 THEN peaks
       ELSE merged(SortByKey(peaks, [i \in DOMAIN peaks |-> peaks[i].rise_pos]))

\* range(0, len(frame_data) - search_window, search_window // 2) raises
\* ValueError when its step is 0
range_raises(config) == (config.min_slope_frames * 2) \div 2 = 0

\* _detect_multiple_peaks: the candidates, best confidence first, at most 5
detect_multiple_peaks(config, frame_data) ==
    LET first5(ranked) == SubSeq(ranked, 1, Min(5, Len(ranked)))
        by_confidence(peaks) ==
            first5(SortByKey(peaks, [i \in DOMAIN peaks |-> 0 - peaks[i].confidence]))
        deduplicated(found) == by_confidence(deduplicate_peaks(config, found))
    IN deduplicated(detect_from(config, frame_data, 0, <<>>,
                                calculate_dynamic_threshold(config, frame_data),
                                get_adaptive_slope_threshold(frame_data)))

\* lines 522-523: peak_color = None, peak_confidence = 0.0
NoColor == [color |-> "none", confidence |-> [num |-> 0, den |-> 1]]

\* variant: the confidence of a green peak is not cut at 1
classify_waveform_color_Unclamped(config, frame_data, rise_pos, fall_pos) ==
    LET n == Len(frame_data)
        before_frames == Max(3, Min(5, rise_pos))
        before_values == Slice(frame_data, Max(0, rise_pos - before_frames), rise_pos)
        before == IF before_values # <<>> THEN before_values
                  ELSE <<At(frame_data, rise_pos)>>
        after_frames == Max(3, Min(5, n - fall_pos - 1))
        after_values == Slice(frame_data, fall_pos + 1, Min(n, fall_pos + after_frames + 1))
        after == IF after_values # <<>> THEN after_values
                 ELSE <<At(frame_data, fall_pos)>>
        difference == SumSeq(after) * Len(before) - SumSeq(before) * Len(after)
        unit == config.difference_threshold * Len(after) * Len(before)
    IN IF config.difference_threshold = 0
       THEN [color |-> "red", confidence |-> [num |-> 0, den |-> 1]]
       ELSE IF 10 * difference > unit
       THEN [color |-> "green",
             confidence |-> [num |-> 10 * difference, den |-> 2 * unit]]
       ELSE [color |-> "red",
             confidence |-> IF difference <= 0 THEN [num |-> 0, den |-> 1]
                            ELSE [num |-> 10 * difference, den |-> unit]]

\* _classify_waveform_color: the mean of the frames after the fall against
\* the mean of the frames before the rise; the confidence is the fraction
\* num/den
classify_waveform_color(config, frame_data, rise_pos, fall_pos) ==
    LET n == Len(frame_data)
        before_frames == Max(3, Min(5, rise_pos))
        before_values == Slice(frame_data, Max(0, rise_pos - before_frames), rise_pos)
        before == IF before_values # <<>> THEN before_values
                  ELSE <<At(frame_data, rise_pos)>>
        after_frames == Max(3, Min(5, n - fall_pos - 1))
        after_values == Slice(frame_data, fall_pos + 1, Min(n, fall_pos + after_frames + 1))
        after == IF after_values # <<>> THEN after_values
                 ELSE <<At(frame_data, fall_pos)>>
        \* difference = after_avg - before_avg, times Len(after) * Len(before)
        difference == SumSeq(after) * Len(before) - SumSeq(before) * Len(after)
        \* difference_threshold (kept in tenths) on the same scale, times 10
        unit == config.difference_threshold * Len(after) * Len(before)
    IN IF config.difference_threshold = 0
       THEN \* lines 994-996: ZeroDivisionError, caught
            [color |-> "red", confidence |-> [num |-> 0, den |-> 1]]
       ELSE IF 10 * difference > unit
       THEN \* line 987: min(1.0, difference / (difference_threshold * 2))
            [color |-> "green",
             confidence |-> IF 10 * difference >= 2 * unit THEN [num |-> 1, den |-> 1]
                            ELSE [num |-> 10 * difference, den |-> 2 * unit]]
       ELSE \* line 991: max(0.0, difference / difference_threshold)
            [color |-> "red",
             confidence |-> IF difference <= 0 THEN [num |-> 0, den |-> 1]
                            ELSE [num |-> 10 * difference, den |-> unit]]

\* lines 579-591: the best candidate and the frame of its maximum
NoPeak == [rise_pos |-> None, fall_pos |-> None, max_value |-> None, peak_frame |-> None]
best_peak(config, window_data, frame_no) ==
    LET located(best, peak_data, max_value) ==
            [rise_pos |-> best.rise_pos, fall_pos |-> best.fall_pos,
             max_value |-> max_value,
             peak_frame |-> frame_no - (Len(window_data)
                                - (best.rise_pos + IndexOf(peak_data, max_value)))]
        within(best, peak_data) == located(best, peak_data, MaxSeq(peak_data))
        of(best) == within(best, Slice(window_data, best.rise_pos, best.fall_pos + 1))
        \* max(all_peaks, key=confidence): the first of the most confident
        chosen(all_peaks) ==
            IF all_peaks = <<>> THEN NoPeak
            ELSE of(all_peaks[CHOOSE i \in DOMAIN all_peaks :
                        /\ \A j \in DOMAIN all_peaks :
                                all_peaks[j].confidence <= all_peaks[i].confidence
                        /\ \A j \in 1..(i - 1) :
                                all_peaks[j].confidence < all_peaks[i].confidence])
    IN chosen(detect_multiple_peaks(config, window_data))

\* ---- the detector object ----
\* EnhancedPeakDetector(config), fed one of the sample sequences
DetInit(configs, scripts) ==
    /\ det_config \in configs
    /\ det_feed \in scripts
    /\ det_buffer = <<>>
    /\ det_regions = <<>>
    /\ det_results = <<>>
    /\ det_updates = 0
    /\ pf_pc = "idle"
    /\ pf_window = <<>>
    /\ pf_best = NoPeak
    /\ pf_color = NoColor
    /\ pf_signal = None
    /\ pf_cfgs = {}

\* update_config(config): the detector's _config is replaced
UpdateConfig(config) ==
    /\ det_updates < MaxUpdates
    /\ config # det_config
    /\ det_config' = config
    /\ det_updates' = det_updates + 1
    /\ UNCHANGED <<det_feed, det_buffer, det_regions, det_results, pf_pc, pf_window,
                   pf_best, pf_color, pf_signal, pf_cfgs>>

\* lines 511-516: process_frame is called with the next sample; the sample
\* is appended and the buffer cut to the last window_size samples
PfAppend ==
    /\ pf_pc = "idle"
    /\ det_feed # <<>>
    /\ LET appended == Append(det_buffer, Head(det_feed))
           max_buffer_size == det_config.window_size
       IN det_buffer' = IF Len(appended) > max_buffer_size
                        THEN SliceLast(appended, max_buffer_size)
                        ELSE appended
    /\ det_feed' = Tail(det_feed)
    /\ pf_cfgs' = {det_config}
    /\ pf_best' = NoPeak
    /\ pf_color' = NoColor
    /\ pf_signal' = None
    /\ pf_window' = <<>>
    /\ pf_pc' = "scan"
    /\ UNCHANGED <<det_config, det_regions, det_results, det_updates>>

\* lines 539-594: the window is searched for candidates and the best one is
\* put to the quality test
PfScan ==
    /\ pf_pc = "scan"
    /\ pf_cfgs' = pf_cfgs \cup {det_config}
    /\ LET config == det_config
           \* the frame_count argument: the number of this call
           frame_no == Len(det_results) + 1
           window_data == IF Len(det_buffer) >= config.window_size
                          THEN SliceLast(det_buffer, config.window_size)
                          ELSE det_buffer
       IN IF Len(det_buffer) >= config.min_slope_frames + 2
          THEN /\ pf_window' = window_data
               /\ IF range_raises(config)
                  THEN pf_pc' = "raised" /\ pf_best' = NoPeak
                  ELSE \E best \in {best_peak(config, window_data, frame_no)} :
                          IF /\ best # NoPeak
                             /\ validate_peak_quality(window_data, best.rise_pos,
                                                      best.fall_pos)
                          THEN pf_pc' = "classify" /\ pf_best' = best
                          ELSE pf_pc' = "return" /\ pf_best' = NoPeak
          ELSE pf_pc' = "return" /\ pf_best' = NoPeak /\ pf_window' = <<>>
    /\ UNCHANGED <<det_config, det_feed, det_buffer, det_regions, det_results,
                   det_updates, pf_color, pf_signal>>

\* lines 596-600: the colour of the accepted peak
PfClassify ==
    /\ pf_pc = "classify"
    /\ pf_cfgs' = pf_cfgs \cup {det_config}
    /\ pf_color' = classify_waveform_color(det_config, pf_window,
                                           pf_best.rise_pos, pf_best.fall_pos)
    /\ pf_pc' = "region"
    /\ UNCHANGED <<det_config, det_feed, det_buffer, det_regions, det_results,
                   det_updates, pf_window, pf_best, pf_signal>>

\* lines 603-617: the PeakRegion is built and appended to _peak_regions
PfRegion ==
    /\ pf_pc = "region"
    /\ pf_cfgs' = pf_cfgs \cup {det_config}
    /\ det_regions' = Append(det_regions,
            [start_frame |-> Max(0, pf_best.peak_frame - det_config.margin_frames),
             end_frame |-> pf_best.peak_frame + det_config.margin_frames,
             peak_frame |-> pf_best.peak_frame,
             max_value |-> pf_best.max_value,
             color |-> pf_color.color,
             confidence |-> pf_color.confidence])
    /\ pf_signal' = 1
    /\ pf_pc' = "return"
    /\ UNCHANGED <<det_config, det_feed, det_buffer, det_results, det_updates,
                   pf_window, pf_best, pf_color>>

\* lines 636-653: the result is built, with the configured threshold, and
\* returned
PfReturn ==
    /\ pf_pc = "return"
    /\ pf_cfgs' = pf_cfgs \cup {det_config}
    /\ det_results' = Append(det_results, pf_signal)
    /\ pf_pc' = "idle"
    /\ UNCHANGED <<det_config, det_feed, det_buffer, det_regions, det_updates,
                   pf_window, pf_best, pf_color, pf_signal>>

(***************************************************************************)
(* The control surface                                                     *)
(***************************************************************************)
CtlInit ==
    /\ last_req = NoReq
    /\ last_call = "none"
    /\ signalled = {}

\* routes.py lines 268-272: HTTPException(401) unless the password is the
\* configured one
verify_password(password_ok) == password_ok

\* the record of the request being served, with the answer it gets
served(route, command, password_ok, code, error) ==
    [no |-> last_req.no + 1, route |-> route, command |-> command,
     password_ok |-> password_ok, status |-> code, error |-> error]

\* POST /control with one of the four detection commands, up to the first
\* statement of processor.start() or processor.stop(); the rest of the call
\* runs in the steps of start() and stop()
Control(c, command, password_ok) ==
    /\ last_req.no < MaxRequests
    /\ c \in callers /\ ctl_pc[c] = "idle"
    /\ IF ~verify_password(password_ok)
       THEN \* line 280
            /\ last_req' = served("control", command, password_ok, 401, "UNAUTHORIZED")
            /\ UNCHANGED <<storeVars, procVars, last_call, signalled>>
       ELSE IF command = "start_detection" /\ ~roi_configured
       THEN \* lines 330-342
            /\ last_req' = served("control", command, password_ok, 400, "ROI_NOT_CONFIGURED")
            /\ UNCHANGED <<storeVars, procVars, last_call, signalled>>
       ELSE IF command \in {"start_detection", "resume_detection"}
       THEN \* lines 344 and 379: processor.start()
            /\ StartCheck(c)
            /\ last_req' = served("control", command, password_ok, 200, "none")
            /\ last_call' = IF already_running THEN "start" ELSE last_call
            /\ UNCHANGED signalled
       ELSE \* lines 356 and 368: processor.stop()
            /\ StopSet(c)
            /\ last_req' = served("control", command, password_ok, 200, "none")
            /\ last_call' = "stop"
            /\ signalled' = signalled \cup {th \in AllThreads : is_alive(th)}

\* lines 50-52 of processor.py: the thread is started and start() returns
StartReturn(c) ==
    /\ StartSpawn(c)
    /\ last_call' = "start"
    /\ UNCHANGED <<last_req, signalled>>

\* POST /roi/config (lines 515-574): the password, the coordinates, the
\* configuration file, then data_store.set_roi_config
PostRoiConfig(cfg, password_ok, saved) ==
    /\ last_req.no < MaxRequests
    /\ IF ~verify_password(password_ok)
       THEN /\ last_req' = served("roi_config", "none", password_ok, 401, "UNAUTHORIZED")
            /\ UNCHANGED <<storeVars, procVars, roiVars>>
       ELSE IF ~validate_coordinates(cfg)
       THEN /\ last_req' = served("roi_config", "none", password_ok, 400,
                                  "INVALID_ROI_COORDINATES")
            /\ UNCHANGED <<storeVars, procVars, roiVars>>
       ELSE IF ~saved
       THEN /\ last_req' = served("roi_config", "none", password_ok, 500,
                                  "Failed to save ROI configuration")
            /\ UNCHANGED <<storeVars, procVars, roiVars>>
       ELSE /\ last_req' = served("roi_config", "none", password_ok, 200, "none")
            /\ SetRoiConfig(cfg)
    /\ UNCHANGED <<last_call, signalled>>

(***************************************************************************)
(* Specifications                                                          *)
(***************************************************************************)
acqVars == <<storeVars, procVars, roiVars>>
\* what no handler of the hub writes: the store, the loop and the configuration
hubFixed == <<acqVars, max_clients, detVars, cfgVars, capVars, ctlVars, last_msg>>
\* the same without the record of the message served last
msgFixed == <<acqVars, max_clients, detVars, cfgVars, capVars, ctlVars>>
\* the detector the processor builds (processor.py line 37), not yet fed
DetIdle == DetInit({DefaultConfig}, {<<>>})

\* the peak_detection section as the schema's defaults give it
\* (config_manager.py lines 85-88), which are the defaults of settings
\* (config.py lines 33-36); difference_threshold in tenths
DefaultPeakSection ==
    [threshold |-> 105, margin_frames |-> 5, difference_threshold |-> 21,
     min_region_length |-> 3]

\* ConfigManager and settings after the configuration has been loaded
CfgInit ==
    /\ cm_config = DefaultPeakSection
    /\ settings_peak = DefaultPeakSection
    /\ cfg_status = 0
    /\ cfg_requests = 0

\* config_manager.py lines 126-177 with the schema of lines 82-90:
\* _validate_config on the peak_detection section
validate_config(section) ==
    /\ section.threshold >= 0 /\ section.threshold <= 255
    /\ section.margin_frames >= 1 /\ section.margin_frames <= 20
    /\ section.difference_threshold >= 0 /\ section.difference_threshold <= 100
    /\ section.min_region_length >= 1 /\ section.min_region_length <= 10

\* routes.py lines 824-882: the range tests of the route on the fields it
\* was sent; None stands for a field that was not sent
in_route_range(threshold, min_region_length) ==
    /\ threshold # None => (threshold >= 50 /\ threshold <= 255)
    /\ min_region_length # None => (min_region_length >= 1 /\ min_region_length <= 20)

\* dict.update(updates) (config_manager.py line 357), and the assignments of
\* routes.py lines 901-908: the fields sent replace the old ones
with_updates(section, threshold, min_region_length) ==
    [section EXCEPT
        !.threshold = IF threshold # None THEN threshold ELSE @,
        !.min_region_length = IF min_region_length # None THEN min_region_length ELSE @]

\* routes.py lines 811-939: POST /peak-detection/config with the fields
\* sent; saved tells whether the file could be written (lines 240-249)
SetPeakDetectionConfig(threshold, min_region_length, saved) ==
    /\ cfg_requests < MaxRequests
    /\ cfg_requests' = cfg_requests + 1
    /\ IF ~in_route_range(threshold, min_region_length)
       THEN \* lines 836, 881: 400, nothing was touched
            /\ cfg_status' = 400
            /\ UNCHANGED <<cm_config, settings_peak, det_config, det_updates>>
       ELSE IF threshold = None /\ min_region_length = None
       THEN \* line 885: no updates
            /\ cfg_status' = 200
            /\ UNCHANGED <<cm_config, settings_peak, det_config, det_updates>>
       ELSE \* line 890: update_config writes the section in memory
            /\ cm_config' = with_updates(cm_config, threshold, min_region_length)
            /\ IF validate_config(cm_config') /\ saved
               THEN \* lines 901-919: settings, then the detector
                    /\ settings_peak' = with_updates(settings_peak, threshold, min_region_length)
                    /\ det_config' = PeakDetectionConfig(settings_peak'.threshold,
                                                         settings_peak'.margin_frames,
                                                         settings_peak'.difference_threshold)
                    /\ det_updates' = det_updates + 1
                    /\ cfg_status' = 200
               ELSE \* line 896: save_config returned False, 500
                    /\ cfg_status' = 500
                    /\ UNCHANGED <<settings_peak, det_config, det_updates>>
    /\ UNCHANGED <<det_feed, det_buffer, det_regions, det_results, pf_pc, pf_window,
                   pf_best, pf_color, pf_signal, pf_cfgs>>

\* POST /peak-detection/config (lines 811-939): the handler has no password
\* parameter, a password sent with the form is not read
PostPeakDetectionConfig(threshold, min_region_length, saved, password_ok) ==
    /\ last_req.no < MaxRequests
    /\ SetPeakDetectionConfig(threshold, min_region_length, saved)
    /\ last_req' = served("peak_detection_config", "none", password_ok, cfg_status', "none")
    /\ UNCHANGED <<last_call, signalled>>

\* ---- RoiCaptureService.capture_roi and its callers ----
\* RoiCaptureService after construction (lines 30-32), nobody calling it
CapInit ==
    /\ store_lock = 0
    /\ cap_pc = [p \in Capturers |-> "idle"]
    /\ cap_cfg = [p \in Capturers |-> NoRoi]
    /\ cap_data = [p \in Capturers |-> NoRoi]
    /\ cap_ret = [p \in Capturers |-> [cached |-> FALSE, data |-> NoRoi, cfg |-> NoRoi]]
    /\ cached_roi_data = NoRoi
    /\ last_roi_config = NoRoi
    /\ cache_fresh = FALSE

\* lines 129-132
roi_config_changed(current, cached) ==
    \/ current.x1 # cached.x1 \/ current.y1 # cached.y1
    \/ current.x2 # cached.x2 \/ current.y2 # cached.y2

\* data_store.py lines 178, 183, 188: a caller enters "with self._lock"
LockRoi(p) ==
    /\ cap_pc[p] = "idle"
    /\ store_lock = 0
    /\ store_lock' = p
    /\ cap_pc' = [cap_pc EXCEPT ![p] = "locked"]
    /\ UNCHANGED <<cap_cfg, cap_data, cap_ret, cached_roi_data, last_roi_config,
                   cache_fresh, roiVars>>

\* variant: the caller keeps the lock when it goes on to capture
ReadRoiConfig_KeepsLock(p) ==
    /\ cap_pc[p] = "locked"
    /\ cap_cfg' = [cap_cfg EXCEPT ![p] = roi_config]
    /\ cap_pc' = [cap_pc EXCEPT ![p] = IF roi_configured THEN "test" ELSE "idle"]
    /\ store_lock' = IF roi_configured THEN p ELSE 0
    /\ UNCHANGED <<cap_data, cap_ret, cached_roi_data, last_roi_config,
                   cache_fresh, roiVars>>

\* processor.py lines 77-81 and routes.py lines 181-182: the ROI state is
\* read inside the locked section, the lock is released on return, and
\* capture_roi is called when the ROI is configured.  (The tick reads the
\* flag and the config in two locked sections, the route in one; nothing
\* here clears the flag in between.)
ReadRoiConfig(p) ==
    /\ cap_pc[p] = "locked"
    /\ cap_cfg' = [cap_cfg EXCEPT ![p] = roi_config]
    /\ cap_pc' = [cap_pc EXCEPT ![p] = IF roi_configured THEN "test" ELSE "idle"]
    /\ store_lock' = 0
    /\ UNCHANGED <<cap_data, cap_ret, cached_roi_data, last_roi_config,
                   cache_fresh, roiVars>>

\* roi_capture.py lines 73-89: the coordinates are validated and the cache
\* is tested
CacheTest(p) ==
    /\ cap_pc[p] = "test"
    /\ IF ~validate_coordinates(cap_cfg[p])
       THEN /\ cap_pc' = [cap_pc EXCEPT ![p] = "idle"]
            /\ cap_ret' = [cap_ret EXCEPT ![p] =
                    [cached |-> FALSE, data |-> NoRoi, cfg |-> cap_cfg[p]]]
       ELSE /\ cap_pc' = [cap_pc EXCEPT ![p] =
                    IF /\ cached_roi_data # NoRoi
                       /\ cache_fresh
                       /\ last_roi_config # NoRoi
                       /\ ~roi_config_changed(cap_cfg[p], last_roi_config)
                    THEN "hit" ELSE "grab"]
            /\ UNCHANGED cap_ret
    /\ UNCHANGED <<store_lock, cap_cfg, cap_data, cached_roi_data, last_roi_config,
                   cache_fresh, roiVars>>

\* lines 86-87: return self._cached_roi_data
CacheReturn(p) ==
    /\ cap_pc[p] = "hit"
    /\ cap_ret' = [cap_ret EXCEPT ![p] =
            [cached |-> TRUE, data |-> cached_roi_data, cfg |-> cap_cfg[p]]]
    /\ cap_pc' = [cap_pc EXCEPT ![p] = "idle"]
    /\ UNCHANGED <<store_lock, cap_cfg, cap_data, cached_roi_data, last_roi_config,
                   cache_fresh, roiVars>>

\* lines 92-95 and 123: _capture_roi_internal grabs the screen and crops
\* the region, or fails and capture_roi returns None
Grab(p, grabbed) ==
    /\ cap_pc[p] = "grab"
    /\ IF grabbed
       THEN /\ cap_data' = [cap_data EXCEPT ![p] = cap_cfg[p]]
            /\ cap_pc' = [cap_pc EXCEPT ![p] = "store_data"]
            /\ UNCHANGED cap_ret
       ELSE /\ cap_pc' = [cap_pc EXCEPT ![p] = "idle"]
            /\ cap_ret' = [cap_ret EXCEPT ![p] =
                    [cached |-> FALSE, data |-> NoRoi, cfg |-> cap_cfg[p]]]
            /\ UNCHANGED cap_data
    /\ UNCHANGED <<store_lock, cap_cfg, cached_roi_data, last_roi_config,
                   cache_fresh, roiVars>>

\* line 96: self._cached_roi_data = roi_data
StoreData(p) ==
    /\ cap_pc[p] = "store_data"
    /\ cached_roi_data' = cap_data[p]
    /\ cap_pc' = [cap_pc EXCEPT ![p] = "store_cfg"]
    /\ UNCHANGED <<store_lock, cap_cfg, cap_data, cap_ret, last_roi_config,
                   cache_fresh, roiVars>>

\* lines 97-98: self._last_roi_config and self._last_capture_time
StoreConfig(p) ==
    /\ cap_pc[p] = "store_cfg"
    /\ last_roi_config' = cap_cfg[p]
    /\ cache_fresh' = TRUE
    /\ cap_pc' = [cap_pc EXCEPT ![p] = "history"]
    /\ UNCHANGED <<store_lock, cap_cfg, cap_data, cap_ret, cached_roi_data, roiVars>>

\* lines 102-123: the capture goes into the ROI history of the store, under
\* the store's lock, and is returned
History(p) ==
    /\ cap_pc[p] = "history"
    /\ store_lock = 0
    /\ AddRoiFrame(150)
    /\ cap_ret' = [cap_ret EXCEPT ![p] =
            [cached |-> FALSE, data |-> cap_data[p], cfg |-> cap_cfg[p]]]
    /\ cap_pc' = [cap_pc EXCEPT ![p] = "idle"]
    /\ UNCHANGED <<store_lock, cap_cfg, cap_data, cached_roi_data, last_roi_config,
                   cache_fresh>>

\* line 80: the cache interval has passed since _last_capture_time
CacheExpire ==
    /\ cache_fresh
    /\ cache_fresh' = FALSE
    /\ UNCHANGED <<store_lock, cap_pc, cap_cfg, cap_data, cap_ret, cached_roi_data,
                   last_roi_config, roiVars>>

\* the store and the loop after construction, with one control thread
AcqInit ==
    /\ StoreInit
    /\ ProcInit
    /\ callers = {1}

Init ==
    /\ AcqInit
    /\ HubInit
    /\ CfgInit
    /\ CapInit
    /\ CtlInit
    /\ max_clients = MaxClients
    /\ DetIdle

\* the store and the acquisition loop, driven by one control thread
Next ==
    \/ \E c \in AllCallers : StartCheck(c) /\ UNCHANGED <<hubVars, detVars, roiVars, cfgVars, capVars, ctlVars>>
    \/ \E c \in AllCallers : StartClear(c) /\ UNCHANGED <<hubVars, detVars, roiVars, cfgVars, capVars, ctlVars>>
    \/ \E c \in AllCallers : StartStatus(c) /\ UNCHANGED <<hubVars, detVars, roiVars, cfgVars, capVars, ctlVars>>
    \/ \E c \in AllCallers : StartSpawn(c) /\ UNCHANGED <<hubVars, detVars, roiVars, cfgVars, capVars, ctlVars>>
    \/ \E c \in AllCallers : StopSet(c) /\ UNCHANGED <<hubVars, detVars, roiVars, cfgVars, capVars, ctlVars>>
    \/ \E c \in AllCallers : StopStatus(c) /\ UNCHANGED <<hubVars, detVars, roiVars, cfgVars, capVars, ctlVars>>
    \/ \E c \in AllCallers : StopJoin(c) /\ UNCHANGED <<hubVars, detVars, roiVars, cfgVars, capVars, ctlVars>>
    \/ \E th \in AllThreads : LoopStep(th) /\ UNCHANGED <<hubVars, detVars, roiVars, cfgVars, capVars, ctlVars>>
    \/ Reset /\ UNCHANGED <<hubVars, detVars, cfgVars, capVars, ctlVars>>
    \/ \E cfg \in {UserRoi} : SetRoiConfig(cfg) /\ UNCHANGED <<hubVars, detVars, cfgVars, capVars, ctlVars>>

Spec == Init /\ [][Next]_vars

\* the socket server with its handlers, one broadcaster and the heartbeat
HubNext ==
    \/ \E same_ms \in BOOLEAN : Connect(same_ms) /\ UNCHANGED hubFixed
    \/ CloseRejected /\ UNCHANGED hubFixed
    \/ \E k \in Conns : Disconnect(k) /\ UNCHANGED hubFixed
    \/ \E k \in Conns : MsgPong(k) /\ UNCHANGED hubFixed
    \/ \E k \in Conns, ok \in BOOLEAN : MsgAuth(k, ok) /\ UNCHANGED hubFixed
    \/ \E k \in Conns, topic \in Topics : MsgSubscribe(k, topic) /\ UNCHANGED hubFixed
    \/ \E kind \in BroadcastKinds : BroadcastStart(kind) /\ UNCHANGED hubFixed
    \/ \E ok \in BOOLEAN : BroadcastResume(ok) /\ UNCHANGED hubFixed
    \/ HeartbeatWake /\ UNCHANGED hubFixed
    \/ HeartbeatResume /\ UNCHANGED hubFixed
    \/ AdvanceTime /\ UNCHANGED hubFixed

\* the server after construction, for every configured max_clients
HubStart ==
    /\ AcqInit
    /\ HubInit
    /\ CfgInit
    /\ CapInit
    /\ CtlInit
    /\ DetIdle

HubSpec == HubStart /\ [][HubNext]_vars

\* the connection handlers alone, with the record of what they answered
MsgNext ==
    \/ \E same_ms \in BOOLEAN : Connect(same_ms) /\ UNCHANGED hubFixed
    \/ CloseRejected /\ UNCHANGED hubFixed
    \/ \E k \in Conns : Disconnect(k) /\ UNCHANGED hubFixed
    \/ \E k \in Conns, message_type \in MessageTypes, password_ok \in BOOLEAN :
            HandleMessage(k, message_type, password_ok) /\ UNCHANGED msgFixed
    \/ AdvanceTime /\ UNCHANGED hubFixed

MsgSpec == HubStart /\ [][MsgNext]_vars

\* the connection handlers and the heartbeat
LivenessNext ==
    \/ \E same_ms \in BOOLEAN : Connect(same_ms) /\ UNCHANGED hubFixed
    \/ CloseRejected /\ UNCHANGED hubFixed
    \/ \E k \in Conns : Disconnect(k) /\ UNCHANGED hubFixed
    \/ \E k \in Conns, message_type \in MessageTypes, password_ok \in BOOLEAN :
            HandleMessage(k, message_type, password_ok) /\ UNCHANGED msgFixed
    \/ HeartbeatWake /\ UNCHANGED hubFixed
    \/ HeartbeatResume /\ UNCHANGED hubFixed
    \/ AdvanceTime /\ UNCHANGED hubFixed

LivenessSpec == HubStart /\ [][LivenessNext]_vars

\* the server with subscribers that answer every ping at once; the clock is
\* let advance only while the heartbeat waits for a ping to be sent, its
\* sleeps (10 s and 5 s, lines 298 and 302) are taken as no time at all
ResponsiveNext ==
    \/ \E same_ms \in {FALSE} : Connect(same_ms) /\ UNCHANGED hubFixed
    \/ CloseRejected /\ UNCHANGED hubFixed
    \/ \E k \in Conns : Disconnect(k) /\ UNCHANGED hubFixed
    \/ HeartbeatWakeAnswered /\ UNCHANGED hubFixed
    \/ HeartbeatResumeAnswered /\ UNCHANGED hubFixed
    \/ hb_pc = "await" /\ AdvanceTime /\ UNCHANGED hubFixed

ResponsiveSpec == HubStart /\ [][ResponsiveNext]_vars

\* the configuration route, its requests served one after the other
ConfigNext ==
    \E threshold \in {None, 40, 120, 255}, min_region_length \in {None, 5, 15, 25},
       saved \in BOOLEAN :
        SetPeakDetectionConfig(threshold, min_region_length, saved)
            /\ UNCHANGED <<acqVars, hubVars, capVars, ctlVars>>

ConfigSpec == Init /\ [][ConfigNext]_vars

\* what no step of capture_roi or of its callers writes
capFixed == <<storeVars, procVars, hubVars, detVars, cfgVars, ctlVars>>

\* two callers of capture_roi while the ROI is being configured
CaptureNext ==
    \/ \E p \in Capturers : LockRoi(p) /\ UNCHANGED capFixed
    \/ \E p \in Capturers : ReadRoiConfig(p) /\ UNCHANGED capFixed
    \/ \E p \in Capturers : CacheTest(p) /\ UNCHANGED capFixed
    \/ \E p \in Capturers : CacheReturn(p) /\ UNCHANGED capFixed
    \/ \E p \in Capturers, grabbed \in BOOLEAN : Grab(p, grabbed) /\ UNCHANGED capFixed
    \/ \E p \in Capturers : StoreData(p) /\ UNCHANGED capFixed
    \/ \E p \in Capturers : StoreConfig(p) /\ UNCHANGED capFixed
    \/ \E p \in Capturers : History(p) /\ UNCHANGED <<hubVars, detVars, cfgVars, ctlVars>>
    \/ CacheExpire /\ UNCHANGED capFixed
    \/ \E cfg \in {UserRoi, DefaultRoi} :
            /\ store_lock = 0
            /\ SetRoiConfig(cfg)
            /\ UNCHANGED <<hubVars, detVars, cfgVars, capVars, ctlVars>>

CaptureSpec == Init /\ [][CaptureNext]_vars

\* what no control command and no step of the acquisition loop writes
ctlFixed == <<hubVars, detVars, cfgVars, capVars>>

\* the control surface with its commands called from several threads at
\* once, the acquisition loop and the ROI route
ControlNext ==
    \/ \E c \in AllCallers, command \in Commands, password_ok \in BOOLEAN :
            Control(c, command, password_ok) /\ UNCHANGED <<roiVars, ctlFixed>>
    \/ \E c \in AllCallers : StartClear(c) /\ UNCHANGED <<roiVars, ctlFixed, ctlVars>>
    \/ \E c \in AllCallers : StartStatus(c) /\ UNCHANGED <<roiVars, ctlFixed, ctlVars>>
    \/ \E c \in AllCallers : StartReturn(c) /\ UNCHANGED <<roiVars, ctlFixed>>
    \/ \E c \in AllCallers : StopStatus(c) /\ UNCHANGED <<roiVars, ctlFixed, ctlVars>>
    \/ \E c \in AllCallers : StopJoin(c) /\ UNCHANGED <<roiVars, ctlFixed, ctlVars>>
    \/ \E th \in AllThreads : LoopStep(th) /\ UNCHANGED <<roiVars, ctlFixed, ctlVars>>
    \/ \E password_ok \in BOOLEAN, saved \in BOOLEAN :
            PostRoiConfig(UserRoi, password_ok, saved) /\ UNCHANGED ctlFixed

ControlStart ==
    /\ StoreInit
    /\ ProcInit
    /\ callers = AllCallers
    /\ HubInit
    /\ CfgInit
    /\ CapInit
    /\ CtlInit
    /\ max_clients = MaxClients
    /\ DetIdle

ControlSpec == ControlStart /\ [][ControlNext]_vars

\* the routes that change state, their requests served one after the other
\* by the event loop of the application, and the acquisition loop
SurfaceNext ==
    \/ ControlNext
    \/ \E threshold \in {None, 120}, min_region_length \in {None, 15},
          saved \in BOOLEAN, password_ok \in BOOLEAN :
            PostPeakDetectionConfig(threshold, min_region_length, saved, password_ok)
                /\ UNCHANGED <<acqVars, hubVars, capVars>>

SurfaceSpec == Init /\ [][SurfaceNext]_vars

\* heartbeat_loop is a task of the server's event loop (line 324): it is
\* scheduled again whenever it can run
HeartbeatStep == (HeartbeatWake \/ HeartbeatResume) /\ UNCHANGED hubFixed

HubLive == HubStart /\ [][HubNext]_vars /\ WF_vars(HeartbeatStep)

\* the store alone, its operations called in any order
StoreSamples == {100, 150}
StoreNext ==
    \/ \E value \in StoreSamples, peak \in {None, 1} :
            StoreAddFrame(value, peak) /\ UNCHANGED <<hubVars, detVars, cfgVars, capVars, ctlVars>>
    \/ \E gray_value \in {150} : AddRoiFrame(gray_value) /\ UNCHANGED <<hubVars, detVars, cfgVars, capVars, ctlVars>>
    \/ Reset /\ UNCHANGED <<hubVars, detVars, cfgVars, capVars, ctlVars>>
    \/ ResetRoiHistory /\ UNCHANGED <<hubVars, detVars, cfgVars, capVars, ctlVars>>
    \/ \E cfg \in RoiConfigs : SetRoiConfig(cfg) /\ UNCHANGED <<hubVars, detVars, cfgVars, capVars, ctlVars>>

StoreSpec == Init /\ [][StoreNext]_vars

\* what the detector does not write
detFixed == <<acqVars, hubVars, cfgVars, capVars, ctlVars>>

DetectorNext ==
    \/ PfAppend /\ UNCHANGED detFixed
    \/ PfScan /\ UNCHANGED detFixed
    \/ PfClassify /\ UNCHANGED detFixed
    \/ PfRegion /\ UNCHANGED detFixed
    \/ PfReturn /\ UNCHANGED detFixed

\* a detector of any configuration, fed one of the sample sequences
DetectorStart ==
    /\ AcqInit
    /\ HubInit
    /\ CfgInit
    /\ CapInit
    /\ CtlInit
    /\ max_clients = MaxClients
    /\ DetInit(Configs, Scripts)

DetectorSpec == DetectorStart /\ [][DetectorNext]_vars

\* the same detector while the configuration route (routes.py line 919) and
\* the reload path (processor.py line 176) call update_config from their
\* own threads
RaceNext ==
    \/ DetectorNext
    \/ \E config \in Configs : UpdateConfig(config) /\ UNCHANGED detFixed

RaceStart ==
    /\ AcqInit
    /\ HubInit
    /\ CfgInit
    /\ CapInit
    /\ CtlInit
    /\ max_clients = MaxClients
    /\ DetInit(Configs, RaceScripts)

DetectorRace == RaceStart /\ [][RaceNext]_vars

(***************************************************************************)
(* Properties of the store and the acquisition loop                        *)
(***************************************************************************)
AliveThreads == {th \in AllThreads : is_alive(th)}
\* positions of _run between the while test and add_frame's return
InTick(th) == pc[th] \in {"read_roi", "sample", "detect", "store_peak", "add_frame"}

\* C1: with n <= capacity frames added since the store was empty,
\* get_series(n) is exactly those n frames in insertion order; with more than
\* capacity frames added, the ring holds the most recent `capacity` of them,
\* oldest first.
C1_RingKeepsMostRecent ==
    /\ Len(added) <= BufferSize => get_series(Len(added)) = added
    /\ Len(added) > BufferSize =>
         frames = SubSeq(added, Len(added) - BufferSize + 1, Len(added))

C1_Witness == Len(added) = BufferSize + 1 /\ Len(frames) = BufferSize

\* C2 (as claimed): once stop() has returned, the snapshot reports Stopped
\* and the loop appends no further frame.
C2_NoFrameAfterStopReturns ==
    /\ [](stop_returned => get_status_snapshot[1] = "stopped")
    /\ [][(stop_returned /\ stop_returned') => frame_count' <= frame_count]_vars

\* C3: start() on a running loop is a no-op: at most one loop thread is ever
\* alive, it is the one _thread refers to, and at most one tick is in progress,
\* so two successive start() calls sample as one does.
C3_StartIdempotent ==
    /\ Cardinality(AliveThreads) <= 1
    /\ AliveThreads \subseteq {thread}
    /\ Cardinality({th \in AllThreads : InTick(th)}) <= 1

C3_Witness ==
    /\ start_ignored
    /\ status = "running"
    /\ AliveThreads = {thread}
    /\ Len(added) >= 1

\* C4: whenever a frame has been added since the last reset, the snapshot's
\* currentValue is the value of the most recently added frame and its
\* frameCount is that frame's index.
C4_SnapshotMatchesLastFrame ==
    added # <<>> =>
        /\ get_status_snapshot[3] = added[Len(added)].value
        /\ get_status_snapshot[2] = added[Len(added)].index

C4_Witness ==
    /\ Len(added) >= 2
    /\ \E th \in AllThreads : pc[th] = "add_frame"

\* C5 (as claimed): the peakSignal of a snapshot is the detection result of
\* the sample whose value the snapshot returns as currentValue: the tick that
\* wrote the peak result is the tick that stored the latest frame.
C5_PeakOfCurrentSample ==
    (added # <<>> /\ enhanced_peak_frame_count > 0) =>
        enhanced_peak_frame_count = added[Len(added)].timestamp

\* C6 (as claimed): an exception inside a tick never ends the loop thread.
C6_TickExceptionContained ==
    \A th \in AllThreads : pc[th] # "crashed"

\* C7 (as claimed): systemStatus is never Stopped while a loop thread is
\* alive inside a tick, about to write to the store.
C7_StoppedOnlyAfterExit ==
    status = "stopped" => \A th \in AllThreads : ~InTick(th)

(***************************************************************************)
(* Properties of the socket server                                         *)
(***************************************************************************)
\* a step in which broadcast_message begins a send (line 243)
SendStep == bc_pc' = "await" /\ (bc_pc = "idle" \/ bc_it'.len # bc_it.len)

\* C8: the table never holds more than max_clients entries; a connection is
\* turned away exactly when the table holds max_clients entries, and neither
\* turning it away nor closing it changes the table, so the subscribers in
\* it stay where broadcasts find them.
C8_TableWithinCapacity ==
    /\ [](DictLen <= max_clients)
    /\ [][(rejecting' # rejecting) => table' = table]_vars
    /\ [][(~rejecting /\ rejecting') => DictLen = max_clients]_vars
    /\ [][DictLen' > DictLen => DictLen < max_clients]_vars

\* a third connection is being turned away while the table is full and a
\* broadcast is being sent to a subscriber of the table
C8_Witness ==
    /\ rejecting
    /\ max_clients = MaxClients
    /\ DictLen = max_clients
    /\ bc_pc = "await"
    /\ InTable(bc_to.conn)

\* C9: every send of a broadcast goes to a subscriber that is authenticated
\* and whose subscriptions hold the topic of the broadcast.
C9_SendsOnlyToAuthenticatedSubscribers ==
    [][SendStep => /\ authenticated'[bc_to'.conn]
                   /\ TopicOf(bc_kind') \in subscriptions'[bc_to'.conn]]_vars

\* C10: a subscriber of the table whose last pong is older than the timeout
\* is eventually out of the table (or has answered after all), and no
\* broadcast sends to a connection that is not in the table.
C10_SilentSubscriberEvicted ==
    /\ \A k \in Conns :
          (InTable(k) /\ ~client_is_alive(k)) ~>
              (~InTable(k) \/ client_is_alive(k))
    /\ [][SendStep => InTable(bc_to'.conn)]_vars

\* the clients the loop of broadcast_message passes from its awaited send to
\* its next stop
BcPassed ==
    LET r == BcOutcome(bc_kind, bc_it)
    IN {table[i].conn : i \in bc_it.pos..(r.pos - 1)}
\* the clients stored under the ids of disconnected_clients, the awaited
\* send's included when it fails
BcFailedConns(send_ok) ==
    LET ids == IF send_ok THEN bc_disc ELSE bc_disc \cup {bc_to.id}
    IN {table[i].conn : i \in {j \in DOMAIN table : table[j].id \in ids}}

\* C11 (as claimed): when a broadcast in which a send has failed ends, the
\* clients whose send failed are out of the table, and the loop has reached
\* every matching client that was in the table since the broadcast began,
\* wherever the failing client stands in the table.
C11_FailedSendContained ==
    [][\A send_ok \in BOOLEAN :
         (BroadcastResume(send_ok) /\ bc_pc' = "idle" /\ (bc_failed \/ ~send_ok)) =>
            /\ \A k \in BcFailedConns(send_ok) : ~InTable(k)'
            /\ \A k \in bc_owed \ BcPassed : ~Matches(bc_kind, k)]_vars

(***************************************************************************)
(* Properties of the peak detector                                         *)
(***************************************************************************)
\* C12 (as claimed): every process_frame call uses one single configuration
\* for all of its steps (buffer truncation, thresholds, candidate search,
\* quality gate, colour classification, margins, result), also when
\* update_config is called from another thread in the middle of the call.
C12_OneConfigPerCall == Cardinality(pf_cfgs) <= 1

\* C13 (as claimed): process_frame never raises: whatever the samples and
\* whatever configuration update_config was handed, every call returns, with
\* a peak signal that is None or 1.
C13_NeverRaises ==
    /\ pf_pc # "raised"
    /\ \A i \in DOMAIN det_results : det_results[i] \in {None, 1}

\* the detector has been fed the whole episode ending at level post, under
\* the configuration of the scenario
EpisodeDone(post) ==
    /\ det_config = ScenarioConfig
    /\ det_buffer = Episode(post)
    /\ det_feed = <<>>
    /\ pf_pc = "idle"

\* C14 (as claimed): one rise-then-fall episode yields exactly one peak: over
\* the 43 ticks of the episode exactly one call returns peak signal 1 and
\* exactly one PeakRegion is added, red when the level after the episode
\* equals the level before it, green when it is higher by more than
\* difference_threshold.
C14_OnePeakPerEpisode ==
    \A post \in {100, 110} :
        EpisodeDone(post) =>
            /\ Cardinality({i \in DOMAIN det_results : det_results[i] = 1}) = 1
            /\ Len(det_regions) = 1
            /\ det_regions[1].color = (IF post = 100 THEN "red" ELSE "green")

\* no sample of the detector's window exceeds the dynamic threshold
NoSampleAboveThreshold ==
    \A i \in DOMAIN det_buffer :
        45 * det_buffer[i] <= calculate_dynamic_threshold(det_config, det_buffer)
\* the calls that returned peak signal 1
Signalled == {i \in DOMAIN det_results : det_results[i] = 1}

\* C15: when no sample in the detector's window exceeds the dynamic
\* threshold, process_frame returns peak signal None and has appended no
\* region.
C15_BelowThresholdNoPeak ==
    (pf_pc = "return" /\ NoSampleAboveThreshold) =>
        /\ pf_signal = None
        /\ Len(det_regions) = Cardinality(Signalled)

\* a whole rise and fall below the configured threshold has been searched,
\* and a flat run has been searched under the adaptive threshold
C15_Witness ==
    /\ pf_pc = "return"
    /\ NoSampleAboveThreshold
    /\ \/ det_config = HighConfig /\ det_buffer = Episode(100)
       \/ Len(det_buffer) >= BaselineWindow

(***************************************************************************)
(* Properties of the store's ROI configuration, reset and series           *)
(***************************************************************************)
\* C16: set_roi_config(cfg) with coordinates that violate x1 < x2 and
\* y1 < y2 raises and leaves the stored config and the configured flag as
\* they were; with valid coordinates it stores cfg and sets the flag.
C16_InvalidRoiRejected ==
    [][\A cfg \in RoiConfigs :
         SetRoiConfig(cfg) =>
            IF cfg.x1 < cfg.x2 /\ cfg.y1 < cfg.y2
            THEN roi_config' = cfg /\ roi_configured' /\ ~roi_error'
            ELSE roi_error' /\ roi_config' = roi_config
                 /\ roi_configured' = roi_configured]_vars

\* an invalid config was refused after a valid one had been stored
C16_Witness == roi_error /\ roi_configured /\ roi_config \notin {DefaultRoi, UserRoi}

\* C17: after set_roi_config(cfg) with a valid cfg, and until another write
\* of the ROI config, get_roi_config() returns x1, y1, x2, y2 of cfg.
C17_RoiRoundTrip ==
    roi_set # NoRoi =>
        /\ get_roi_config.x1 = roi_set.x1
        /\ get_roi_config.y1 = roi_set.y1
        /\ get_roi_config.x2 = roi_set.x2
        /\ get_roi_config.y2 = roi_set.y2

\* a config other than the default was stored, and a later invalid one refused
C17_Witness == roi_set \notin {NoRoi, DefaultRoi} /\ roi_error

\* C18 (as claimed): when reset() returns, the main buffer and the ROI buffer
\* are empty and frame count, current value, baseline, peak signal and last
\* peak signal are back at their initial values.
C18_ResetClearsBoth ==
    [][Reset =>
         /\ frames' = <<>>
         /\ roi_frames' = <<>>
         /\ frame_count' = 0
         /\ current_value' = 0
         /\ baseline' = [num |-> 0, den |-> 1]
         /\ peak_signal' = None
         /\ last_peak_signal' = None]_vars

\* the last Min(n, Len(s)) entries of s, oldest first
LastFrames(s, n) == [i \in 1..Min(n, Len(s)) |-> s[Len(s) - Min(n, Len(s)) + i]]

\* C19 (as claimed): for every n >= 0, get_series(n) and get_roi_series(n)
\* return exactly the last min(n, buffer length) frames, oldest first.
C19_SeriesLength ==
    \A n \in 0..(BufferSize + RoiBufferSize) :
        /\ get_series(n) = LastFrames(frames, n)
        /\ get_roi_series(n) = LastFrames(roi_frames, n)

\* C20 (as claimed): every Frame add_frame returns has an index greater than
\* the index of every frame added before it, over any sequence of store
\* operations, and the frames in the buffer are in increasing index order.
C20_IndicesIncrease ==
    [][\A value \in StoreSamples, peak \in {None, 1} :
         StoreAddFrame(value, peak) =>
            /\ frames'[Len(frames')].index > max_index
            /\ \A i \in 1..(Len(frames') - 1) : frames'[i].index < frames'[i + 1].index]_vars

\* C21: after every add_frame the baseline is the mean of the values of the
\* last min(buffer length, fps) frames, counting only frames added since the
\* last reset; after reset() the baseline is 0.
C21_BaselineIsWindowMean ==
    IF added = <<>> THEN baseline.num = 0
    ELSE \E k \in {Min(Min(Len(added), BufferSize), Fps)} :
            baseline.num * k
                = baseline.den * SumValues(SubSeq(added, Len(added) - k + 1, Len(added)))

\* after a reset the buffer has been filled beyond the baseline window with
\* values that differ
C21_Witness ==
    /\ max_index > frame_count
    /\ Len(frames) > Fps
    /\ frames[1].value # frames[Len(frames)].value

\* C22: in a tick with ROI configured, a capture that raises, is missing or
\* is not positive makes the tick take the wave sample and go on to the
\* detection step; the sample is kept until add_frame stores it as the
\* tick's frame, and the thread then returns to the loop test.
C22_CaptureFailureRecovered ==
    [][\A th \in AllThreads :
        /\ \A outcome \in CaptureOutcomes :
              (SampleWith(th, outcome) /\ t_roi[th]
                 /\ (outcome = Raises \/ outcome = None \/ outcome <= 0))
              => /\ t_value'[th] = SimWave[t_phase[th] + 1]
                 /\ pc'[th] = "detect"
        /\ (pc[th] \in {"detect", "store_peak", "add_frame"})
              => t_value'[th] = t_value[th]
        /\ AddFrame(th)
              => /\ frames'[Len(frames')].value = t_value[th]
                 /\ pc'[th] = "loop"]_vars

\* a tick with ROI configured has stored the wave sample and the loop is at
\* its test again
C22_Witness ==
    \E th \in AllThreads :
        /\ pc[th] = "loop" /\ t_roi[th]
        /\ frames # <<>>
        /\ frames[Len(frames)].value = t_value[th]
        /\ \E i \in DOMAIN SimWave : t_value[th] = SimWave[i]

\* C23: a connection becomes authenticated only by an auth message with the
\* configured password, which is answered with auth_success; an auth
\* message with another password is answered with auth_error and leaves
\* the flag as it was; a message other than auth, ping and pong from a
\* connection that is not authenticated is answered with "Authentication
\* required" and reaches no handler.
C23_AuthGate ==
    [][\A k \in Conns :
        /\ (~authenticated[k] /\ authenticated'[k])
              => last_msg' = [conn |-> k, type |-> "auth", password_ok |-> TRUE,
                              reply |-> "auth_success", dispatched |-> FALSE]
        /\ \A message_type \in MessageTypes, password_ok \in BOOLEAN :
              HandleMessage(k, message_type, password_ok)
              => /\ (message_type = "auth" /\ password_ok)
                      => authenticated'[k] /\ last_msg'.reply = "auth_success"
                 /\ (message_type = "auth" /\ ~password_ok)
                      => /\ authenticated'[k] = authenticated[k]
                         /\ last_msg'.reply = "auth_error"
                 /\ (message_type \notin {"auth", "ping", "pong"} /\ ~authenticated[k])
                      => /\ last_msg'.reply = "Authentication required"
                         /\ ~last_msg'.dispatched
                         /\ subscriptions' = subscriptions
                         /\ authenticated' = authenticated]_vars

\* one connection is authenticated and the other has just been refused
C23_Witness ==
    /\ \E k \in Conns : authenticated[k]
    /\ last_msg.reply = "Authentication required"
    /\ last_msg.conn \in Conns /\ ~authenticated[last_msg.conn]

\* C24 (as claimed): a subscribe message of an authenticated connection puts
\* the topic into its subscriptions, where it stays while the connection is
\* open, and every broadcast on that topic that begins afterwards reaches
\* the connection unless it is closed in the meantime.
C24_SubscriberReceivesBroadcasts ==
    /\ [][\A k \in Conns, topic \in Topics :
            (MsgSubscribe(k, topic) /\ authenticated[k])
            => topic \in subscriptions'[k]]_vars
    /\ [][\A k \in Conns :
            (h_pc[k] = "open" /\ h_pc'[k] = "open")
            => subscriptions[k] \subseteq subscriptions'[k]]_vars
    /\ [][\A send_ok \in BOOLEAN :
            (BroadcastResume(send_ok) /\ bc_pc' = "idle"
               /\ bc_kind = "db_realtime_data")
            => \A k \in bc_owed \ BcPassed : h_pc'[k] # "open"]_vars

\* C25: no message other than pong changes the time since the last pong:
\* on an open connection that time goes back only when a pong is served,
\* and the heartbeat puts a client on its list of dead clients, and removes
\* it from the table, only when that time has reached the timeout,
\* whatever else the client has sent.
C25_OnlyPongRefreshes ==
    /\ [][\A k \in Conns, message_type \in MessageTypes \ {"pong"},
             password_ok \in BOOLEAN :
            HandleMessage(k, message_type, password_ok) => pong_age' = pong_age]_vars
    /\ [][\A k \in Conns :
            (h_pc[k] = "open" /\ h_pc'[k] = "open" /\ pong_age'[k] < pong_age[k])
            => /\ last_msg'.conn = k
               /\ last_msg'.type = "pong"]_vars
    /\ [][\A k \in Conns :
            ((HeartbeatWake \/ HeartbeatResume) /\ InTable(k))
            => /\ (cid[k] \notin hb_dead /\ cid'[k] \in hb_dead')
                    => ~client_is_alive(k)
               /\ ~InTable(k)'
                    => (cid[k] \in hb_dead \/ ~client_is_alive(k))]_vars

\* a client whose latest message was not a pong has been removed from the
\* table by the heartbeat, its connection still open
C25_Witness ==
    \E k \in Conns :
        /\ h_pc[k] = "open" /\ ~InTable(k)
        /\ \A j \in Conns \ {k} : h_pc[j] = "none"
        /\ ~client_is_alive(k)
        /\ last_msg.conn = k
        /\ last_msg.type \in MessageTypes \ {"pong"}

\* C26 (as claimed): a POST /peak-detection/config that is answered with an
\* error leaves the config manager's section, the settings and the
\* detector's configuration as they were; one that is answered with 200
\* leaves all three with the fields that were sent.
C26_UpdateAllOrNothing ==
    [][\A threshold \in {None, 40, 120, 255}, min_region_length \in {None, 5, 15, 25},
         saved \in BOOLEAN :
          SetPeakDetectionConfig(threshold, min_region_length, saved)
          => IF cfg_status' = 200
             THEN /\ cm_config' = with_updates(cm_config, threshold, min_region_length)
                  /\ settings_peak' = with_updates(settings_peak, threshold, min_region_length)
                  /\ det_config'.threshold = settings_peak'.threshold
             ELSE UNCHANGED <<cm_config, settings_peak, det_config>>]_vars

\* C27: a caller that is inside capture_roi, from the cache test to the
\* stores into the cache, does not hold the lock of the store.
C27_NoLockDuringCapture ==
    \A p \in Capturers :
        cap_pc[p] \in {"test", "hit", "grab", "store_data", "store_cfg", "history"}
        => store_lock # p

\* the acquisition thread is grabbing the screen while the request handler
\* is inside a locked section of the store
C27_Witness ==
    /\ cap_pc[1] = "grab"
    /\ store_lock = 2

\* C28 (as claimed): what capture_roi returns from its cache was captured
\* under the coordinates it was called with.
C28_CacheMatchesConfig ==
    \A p \in Capturers :
        cap_ret[p].cached => ~roi_config_changed(cap_ret[p].cfg, cap_ret[p].data)

\* the samples the classification of an accepted peak compares: up to five
\* before the rise and up to five after the fall, the sample at the rise
\* or at the fall where there is none
SamplesBefore ==
    IF pf_best.rise_pos = 0 THEN <<pf_window[1]>>
    ELSE SubSeq(pf_window, Max(1, pf_best.rise_pos - 4), pf_best.rise_pos)
SamplesAfter ==
    IF pf_best.fall_pos + 1 >= Len(pf_window) THEN <<pf_window[pf_best.fall_pos + 1]>>
    ELSE SubSeq(pf_window, pf_best.fall_pos + 2,
                Min(Len(pf_window), pf_best.fall_pos + 6))

\* C29: for every accepted peak, with diff the mean of the samples after
\* the fall minus the mean of the samples before the rise: the peak is
\* green exactly when diff > difference_threshold, then with confidence
\* min(1, diff / (2 * difference_threshold)); otherwise it is red with
\* confidence max(0, diff / difference_threshold); the confidence lies
\* within [0, 1].  (Sums are compared after multiplying by both lengths,
\* difference_threshold is in tenths.)
C29_ColorAndConfidence ==
    (pf_pc \in {"region", "return"} /\ pf_color.color # "none") =>
        \E la \in {Len(SamplesAfter)}, lb \in {Len(SamplesBefore)} :
        \E diff \in {SumSeq(SamplesAfter) * lb - SumSeq(SamplesBefore) * la},
           dt \in {det_config.difference_threshold * la * lb} :
        \E c \in {pf_color.confidence} :
            /\ pf_color.color = (IF 10 * diff > dt THEN "green" ELSE "red")
            /\ c.den > 0 /\ 0 <= c.num /\ c.num <= c.den
            /\ pf_color.color = "green"
                  => c.num * 2 * dt = c.den * Min(2 * dt, 10 * diff)
            /\ pf_color.color = "red"
                  => c.num * dt = c.den * Max(0, 10 * diff)

\* a peak has been classified red with a confidence strictly between 0
\* and 1: its difference is positive and does not exceed the threshold
C29_Witness ==
    /\ pf_pc = "return"
    /\ pf_color.color = "red"
    /\ 0 < pf_color.confidence.num
    /\ pf_color.confidence.num < pf_color.confidence.den

\* C30: process_frame returns peak_signal = 1 only when the best candidate
\* of the window passes the whole quality gate: rise before fall, score of
\* at least 0.4, amplitude (the highest sample of the peak minus the lowest
\* from five before the rise to five after the fall) of at least 5, width
\* fall - rise of at least 2 and of at most a third of the window; every
\* other call returns None and appends no PeakRegion, so there is exactly
\* one PeakRegion for every call that signalled a peak.
C30_SignalOnlyThroughGate ==
    /\ pf_signal \in {None, 1}
    /\ Len(det_regions) = Cardinality(Signalled) + (IF pf_pc = "return" /\ pf_signal = 1 THEN 1 ELSE 0)
    /\ (pf_pc = "return" /\ pf_signal = 1) =>
          \E rise \in {pf_best.rise_pos}, fall \in {pf_best.fall_pos} :
            /\ pf_best = best_peak(det_config, pf_window, Len(det_results) + 1)
            /\ rise < fall
            /\ calculate_peak_quality(pf_window, rise, fall).score >= 400 * Scale
            /\ MaxSeq(SubSeq(pf_window, rise + 1, fall + 1))
                 - MinSeq(SubSeq(pf_window, Max(1, rise - 4),
                                 Min(Len(pf_window), fall + 6))) >= 5
            /\ fall - rise >= 2
            /\ 3 * (fall - rise) <= Len(pf_window)

\* a call that found a candidate and rejected it is about to return None
C30_Witness ==
    /\ pf_pc = "return"
    /\ pf_signal = None
    /\ pf_window # <<>>
    /\ best_peak(det_config, pf_window, Len(det_results) + 1) # NoPeak

(***************************************************************************)
(* Properties of the control surface                                       *)
(***************************************************************************)
\* C31 (as claimed): a command that would start the loop while the ROI is
\* not configured is refused with ROI_NOT_CONFIGURED and leaves the loop
\* and systemStatus as they were.
C31_NoStartWithoutRoi ==
    [][(/\ last_req'.no # last_req.no
        /\ last_req'.route = "control"
        /\ last_req'.command \in {"start_detection", "resume_detection"}
        /\ last_req'.password_ok
        /\ ~roi_configured)
       => /\ last_req'.error = "ROI_NOT_CONFIGURED"
          /\ UNCHANGED <<thread, stop_event, pc, ctl_pc, status>>]_vars

\* C32 (as claimed): at most one loop thread is alive, whatever the
\* interleaving of the start() and stop() calls of several control threads.
C32_OneLoopThread ==
    \A th1 \in AllThreads, th2 \in AllThreads :
        (is_alive(th1) /\ is_alive(th2)) => th1 = th2

\* C33 (as claimed): when a start() has returned, no stop() was called
\* since, no call is in progress and no tick has raised, systemStatus is
\* Running and the thread _thread refers to is alive with no stop signal
\* pending.
C33_StartedMeansRunning ==
    (/\ last_call = "start"
     /\ \A c \in callers : ctl_pc[c] = "idle"
     /\ \A th \in AllThreads : pc[th] # "crashed")
    => /\ status = "running"
       /\ is_alive(thread)
       /\ ~stop_event

\* C34 (as claimed): a loop thread that was alive when a stop() set the
\* stop signal begins no further tick.
C34_SignalledThreadStops ==
    [][\A th \in signalled : ~(pc[th] = "loop" /\ pc'[th] = "read_roi")]_vars

\* C39 (as claimed): a request whose password is not the configured one
\* changes nothing of the acquisition loop, the store, the detector's
\* configuration and the configuration.
C39_PasswordGate ==
    [][(last_req'.no # last_req.no /\ ~last_req'.password_ok)
       => UNCHANGED <<storeVars, roiVars, thread, stop_event, pc, det_config,
                      cm_config, settings_peak>>]_vars

(***************************************************************************)
(* Properties of the subscriber table                                      *)
(***************************************************************************)
\* C35 (as claimed): the hub never serves the messages of more than
\* max_clients connections, and it handles a message only for a connection
\* whose subscriber is in the table: once the heartbeat or a failed send
\* has removed it, nothing it sends is handled or answered.
C35_RemovedSubscriberUnserved ==
    /\ [](Cardinality({k \in Conns : h_pc[k] = "open"}) <= max_clients)
    /\ [][\A k \in Conns, message_type \in MessageTypes, password_ok \in BOOLEAN :
            HandleMessage(k, message_type, password_ok) => InTable(k)]_vars

\* C36 (as claimed): two open connections never carry the same client_id;
\* accepting a connection leaves the entry of every other open connection
\* in the table, and a disconnect removes no entry but its own.
C36_UniqueIds ==
    /\ [](\A j \in Conns, k \in Conns :
            (j # k /\ h_pc[j] = "open" /\ h_pc[k] = "open") => cid[j] # cid[k])
    /\ [][\A same_ms \in BOOLEAN :
            Connect(same_ms) => \A j \in Conns : InTable(j) => InTable(j)']_vars
    /\ [][\A k \in Conns :
            Disconnect(k) => \A j \in Conns \ {k} : InTable(j) => InTable(j)']_vars

\* C37 (as claimed): a broadcast and a heartbeat pass that wait on a send
\* end only by reaching the end of the table, never by the error of an
\* iterator whose table has changed; a broadcast that ends has passed
\* every matching subscriber that was in the table from its beginning on.
C37_PassesComplete ==
    /\ [][(bc_pc = "await" /\ bc_pc' = "idle")
            => /\ BcOutcome(bc_kind, bc_it).res = "end"
               /\ bc_owed \subseteq BcPassed]_vars
    /\ [][(hb_pc = "await" /\ hb_pc' = "sleep")
            => HbOutcome(hb_it, hb_dead).res = "end"]_vars

\* C38 (as claimed): when every subscriber answers each ping it receives
\* with a pong at once, no step of the heartbeat takes a subscriber out of
\* the table, whatever connections arrive and leave meanwhile.
C38_ResponsiveNeverEvicted ==
    [][\A k \in Conns :
         ((HeartbeatWakeAnswered \/ HeartbeatResumeAnswered) /\ InTable(k))
         => InTable(k)']_vars

====
